---- MODULE Spec2Model ----
(***************************************************************************)
(* Verification model of the Rakhine lexicon repository: the Validation    *)
(* Engine (scripts/validation.py), the Lexicon Store                       *)
(* (src/rki_lexicon/core.py) and the Audio Link Store                      *)
(* (scripts/audio_integration.py).                                         *)
(*                                                                         *)
(* Strings are sequences of Unicode code points, so that regular           *)
(* expressions, lower(), startswith/endswith and substring tests are       *)
(* computed character by character.  Python's None is the value Null.      *)
(***************************************************************************)
EXTENDS Integers, Sequences, FiniteSets, TLC

VARIABLES
    entry,        \* validation: the raw entry map handed to validate_entry
    validated,    \* validation: outcome of validate_entry(entry)
    entries,      \* RakhineLexicon.entries, in dict (insertion) order
    modified,     \* RakhineLexicon.metadata['modified']
    now,          \* the wall clock read by datetime.now()
    lastOp,       \* outcome of the last Lexicon Store operation
    audio_files,  \* table audio_files (committed rows, in rowid order)
    speakers,     \* table speakers (committed rows, keyed by speaker_id)
    audioOp,      \* outcome of the last Audio Link Store operation
    importer,     \* concurrent importers: each one's place in import_audio_file
    dbLock,       \* concurrent importers: who holds SQLite's write lock (0: nobody)
    is_recording, \* AudioRecorder.is_recording
    frames,       \* AudioRecorder.frames
    stream,       \* AudioRecorder.stream (0: None, else the stream's number)
    recording_thread, \* AudioRecorder.recording_thread (0: None, else its number)
    audio,        \* AudioRecorder.audio: the PyAudio instance, ready or terminated
    streams,      \* the streams audio.open has made, each open or closed
    threads,      \* the threads start_recording has made: each one's place in _record
    caller,       \* the thread calling the recorder: its place and last result
    captured      \* the input device: number of chunks it has delivered

valVars == <<entry, validated>>
storeVars == <<entries, modified, now, lastOp>>
audioVars == <<audio_files, speakers, audioOp>>
raceVars == <<importer, dbLock>>
recVars == <<is_recording, frames, stream, recording_thread, audio,
             streams, threads, caller, captured>>
vars == <<entry, validated, entries, modified, now, lastOp,
          audio_files, speakers, audioOp, importer, dbLock,
          is_recording, frames, stream, recording_thread, audio,
          streams, threads, caller, captured>>

----------------------------------------------------------------------------
(* Bounds of the model *)

\* The clock runs from 0 to MaxTime
MaxTime == 2

\* Distinct file contents (byte strings) on disk: 1..NumContents
NumContents == 2

\* The most files one directory listing holds
MaxDirFiles == 2

\* The longest transcription handed to utils.validate_ipa
MaxIpaLen == 5

\* The longest lexicon file main() is run on
MaxLexicon == 2

\* The most streams (and recording threads) one AudioRecorder opens
MaxStreams == 2

\* The most chunks the input device delivers
MaxChunks == 3

----------------------------------------------------------------------------
(* Values and strings *)

\* Python None.  No string equals it: code points are never negative.
Null == <<-1>>

\* Python truthiness of a field value: None and "" are falsy.
Truthy(v) == v # Null /\ v # <<>>

\* isinstance(v, str)
IsStr(v) == v # Null

\* str.lower(), on the ASCII letters
Lower(s) == [i \in DOMAIN s |-> IF s[i] \in 65..90 THEN s[i] + 32 ELSE s[i]]

\* s.startswith(c) / s.endswith(c) for a one-character c
StartsWith(s, c) == Len(s) >= 1 /\ s[1] = c
EndsWith(s, c) == Len(s) >= 1 /\ s[Len(s)] = c

\* Python's `q in s` for strings: q occurs in s as a contiguous substring
Contains(s, q) ==
    \E i \in 0..(Len(s) - Len(q)) : \A j \in 1..Len(q) : s[i + j] = q[j]

\* Unicode whitespace: what \s matches in a str pattern and str.strip() strips
IsSpace(c) ==
    c \in (9..13) \cup (28..32) \cup {133, 160, 5760} \cup (8192..8202)
          \cup {8232, 8233, 8239, 8287, 12288}

\* \d in a str pattern: Unicode decimal digits (ASCII, Arabic-Indic,
\* Devanagari, Bengali, Myanmar, Myanmar Shan, fullwidth)
IsDigit(c) ==
    c \in (48..57) \cup (1632..1641) \cup (2406..2415) \cup (2534..2543)
          \cup (4160..4169) \cup (4240..4249) \cup (65296..65305)

\* `$`: the end of the string, or just before a final newline
DropFinalNewline(s) ==
    IF Len(s) >= 1 /\ s[Len(s)] = 10 THEN SubSeq(s, 1, Len(s) - 1) ELSE s

----------------------------------------------------------------------------
(* Validation Engine: RakhineLexiconValidator *)

\* self.valid_rakhine_ipa_chars
valid_rakhine_ipa_chars ==
    (97..122) \cup
    {224, 225, 226, 227, 228, 230, 231, 232, 233, 234, 235, 236, 237, 238,
     239, 240, 242, 243, 244, 245, 246, 248, 249, 250, 251, 252, 259, 277,
     279, 283, 295, 297, 301, 331, 335, 339, 361, 365, 448, 449, 450, 451,
     462, 464, 466, 468, 551, 559, 592, 593, 595, 597, 598, 599, 600, 601,
     603, 604, 605, 606, 607, 608, 609, 610, 611, 612, 613, 614, 615, 616,
     618, 619, 620, 621, 622, 623, 624, 625, 626, 627, 628, 629, 630, 632,
     633, 634, 635, 637, 638, 640, 641, 642, 643, 644, 648, 650, 651, 652,
     653, 655, 656, 657, 658, 660, 661, 664, 665, 669, 671, 673, 674, 688,
     689, 690, 692, 695, 700, 712, 716, 720, 721, 734, 736, 740, 776, 778,
     794, 796, 799, 800, 804, 805, 809, 810, 812, 816, 825, 826, 827, 828,
     829, 946, 952, 7681, 7705, 7725, 7797, 7869, 8593, 8594, 8595, 8599,
     8600, 11377}

\* self.valid_pos
valid_pos ==
    { <<110, 111, 117, 110>>,                                 \* noun
      <<118, 101, 114, 98>>,                                  \* verb
      <<97, 100, 106, 101, 99, 116, 105, 118, 101>>,          \* adjective
      <<97, 100, 118, 101, 114, 98>>,                         \* adverb
      <<112, 114, 111, 110, 111, 117, 110>>,                  \* pronoun
      <<112, 97, 114, 116, 105, 99, 108, 101>>,               \* particle
      <<99, 108, 97, 115, 115, 105, 102, 105, 101, 114>>,     \* classifier
      <<105, 110, 116, 101, 114, 106, 101, 99, 116, 105, 111, 110>>, \* interjection
      <<99, 111, 110, 106, 117, 110, 99, 116, 105, 111, 110>>, \* conjunction
      <<110, 117, 109, 101, 114, 97, 108>>,                   \* numeral
      <<112, 114, 101, 112, 111, 115, 105, 116, 105, 111, 110>>, \* preposition
      <<112, 111, 115, 116, 112, 111, 115, 105, 116, 105, 111, 110>>, \* postposition
      <<97, 117, 120, 105, 108, 105, 97, 114, 121>> }         \* auxiliary

\* required_fields, in the order validate_entry walks them
required_fields == <<"id", "rakhine", "romanization", "pos", "gloss_en">>

\* One element of the errors list: the message's fixed text, and the field
\* name, field value, detail text and character formatted into it.
Finding(msg, fld, val, detail, ch) ==
    [msg |-> msg, field |-> fld, value |-> val, detail |-> detail, char |-> ch]

\* re.match(r'^rki_\d{4,}$', s)
MatchesIdPattern(s) ==
    LET t == DropFinalNewline(s)
    IN  /\ Len(t) >= 8
        /\ SubSeq(t, 1, 4) = <<114, 107, 105, 95>>
        /\ \A i \in 5..Len(t) : IsDigit(t[i])

\* self.myanmar_pattern: ^[က-႟ꩠ-ꩿ\s\.၊။]+$
InMyanmarClass(c) ==
    \/ c \in 4096..4255
    \/ c \in 43616..43647
    \/ IsSpace(c)
    \/ c = 46
    \/ c \in {4170, 4171}

myanmar_pattern_match(s) ==
    \/ Len(s) >= 1 /\ \A i \in 1..Len(s) : InMyanmarClass(s[i])
    \/ LET t == DropFinalNewline(s)
       IN  Len(t) >= 1 /\ \A i \in 1..Len(t) : InMyanmarClass(t[i])

\* _validate_myanmar(text)
validate_myanmar(text) ==
    IF ~Truthy(text) \/ ~IsStr(text) THEN FALSE ELSE myanmar_pattern_match(text)

\* Characters of a transcription body that _validate_rakhine_ipa accepts
IpaCharOk(c) ==
    \/ c \in valid_rakhine_ipa_chars
    \/ c \in {32, 46, 59, 44, 45}
    \/ (c >= 768 /\ c <= 879)

\* _validate_rakhine_ipa(ipa): [ok, msg, char]
validate_rakhine_ipa(ipa) ==
    IF ~Truthy(ipa) \/ ~IsStr(ipa)
    THEN [ok |-> FALSE, msg |-> "Empty IPA", char |-> 0]
    ELSE IF /\ ~(StartsWith(ipa, 47) /\ EndsWith(ipa, 47))
            /\ ~(StartsWith(ipa, 91) /\ EndsWith(ipa, 93))
    THEN [ok |-> FALSE,
          msg |-> "IPA must be enclosed in /slashes/ or [brackets]",
          char |-> 0]
    ELSE LET ipa_content == SubSeq(ipa, 2, Len(ipa) - 1)
             bad == {i \in DOMAIN ipa_content : ~IpaCharOk(ipa_content[i])}
         IN  IF \A i \in DOMAIN ipa_content : IsSpace(ipa_content[i])
             THEN [ok |-> TRUE, msg |-> "", char |-> 0]
             ELSE IF bad # {}
             THEN [ok |-> FALSE,
                   msg |-> "Character not in valid IPA set",
                   char |-> ipa_content[CHOOSE i \in bad : \A j \in bad : i <= j]]
             ELSE [ok |-> TRUE, msg |-> "", char |-> 0]

\* utils.validate_ipa: the code points of its valid_chars string
utils_valid_chars ==
    {
     97, 98, 99, 100, 101, 102, 103, 104, 105, 106, 107, 108, 109, 110,
     111, 112, 113, 114, 115, 116, 117, 118, 119, 120, 121, 122, 230, 231,
     240, 248, 295, 331, 339, 448, 449, 450, 451, 592, 593, 595, 597, 598,
     599, 600, 601, 603, 604, 605, 606, 607, 608, 609, 610, 611, 612, 613,
     614, 615, 616, 618, 619, 620, 621, 622, 623, 624, 625, 626, 627, 628,
     629, 630, 632, 633, 634, 635, 637, 638, 640, 641, 642, 643, 644, 648,
     650, 651, 652, 653, 655, 656, 657, 658, 660, 661, 664, 665, 669, 671,
     673, 674, 688, 689, 690, 692, 695, 700, 712, 716, 720, 721, 734, 736,
     740, 776, 778, 794, 796, 799, 800, 804, 805, 809, 810, 812, 816, 825,
     826, 827, 828, 829, 946, 952, 8593, 8594, 8595, 8599, 8600, 11377 }

\* utils.validate_ipa(ipa): [ok, msg, char]; msg "" is the error None
validate_ipa(ipa) ==
    IF ~Truthy(ipa)
    THEN [ok |-> TRUE, msg |-> "", char |-> 0]
    ELSE IF /\ ~(StartsWith(ipa, 47) /\ EndsWith(ipa, 47))
            /\ ~(StartsWith(ipa, 91) /\ EndsWith(ipa, 93))
    THEN [ok |-> FALSE,
          msg |-> "IPA must be enclosed in /slashes/ or [brackets]",
          char |-> 0]
    ELSE LET ipa_content == SubSeq(ipa, 2, Len(ipa) - 1)
             bad == {i \in DOMAIN ipa_content :
                        /\ ipa_content[i] \notin utils_valid_chars
                        /\ ipa_content[i] \notin {32, 46, 59, 44, 45}}
         IN  IF bad # {}
             THEN [ok |-> FALSE,
                   msg |-> "Invalid IPA character: ",
                   char |-> ipa_content[CHOOSE i \in bad : \A j \in bad : i <= j]]
             ELSE [ok |-> TRUE, msg |-> "", char |-> 0]

\* A POS check that forgets lower()
validate_pos_case_sensitive(pos) == pos \in valid_pos

\* _validate_pos(pos); pos is a string here (None has no lower())
validate_pos(pos) == Lower(pos) \in valid_pos

\* The required-field loop of validate_entry
RECURSIVE MissingFields(_, _)
MissingFields(e, i) ==
    IF i > Len(required_fields) THEN <<>>
    ELSE LET f == required_fields[i]
         IN  (IF f \notin DOMAIN e \/ ~Truthy(e[f])
              THEN <<Finding("Missing required field: ", f, <<>>, "", 0)>>
              ELSE <<>>)
             \o MissingFields(e, i + 1)

IdFindings(e) ==
    IF "id" \in DOMAIN e /\ ~MatchesIdPattern(e["id"])
    THEN <<Finding("Invalid ID format: ", "", e["id"], "", 0)>>
    ELSE <<>>

ScriptFindings(e) ==
    IF "rakhine" \in DOMAIN e /\ ~validate_myanmar(e["rakhine"])
    THEN <<Finding("Invalid Myanmar script: ", "", e["rakhine"], "", 0)>>
    ELSE <<>>

IpaFindings(e) ==
    IF "ipa" \in DOMAIN e /\ Truthy(e["ipa"])
    THEN LET r == validate_rakhine_ipa(e["ipa"])
         IN  IF ~r.ok
             THEN <<Finding("Invalid IPA: ", "", e["ipa"], r.msg, r.char)>>
             ELSE <<>>
    ELSE <<>>

PosFindings(e) ==
    IF "pos" \in DOMAIN e /\ ~validate_pos(e["pos"])
    THEN <<Finding("Invalid POS: ", "", e["pos"], "", 0)>>
    ELSE <<>>

\* The exception validate_entry raises on e, or "" when it returns:
\* re.match on a None id, then None.lower() on a None pos.
validate_entry_raises(e) ==
    IF "id" \in DOMAIN e /\ ~IsStr(e["id"]) THEN "TypeError"
    ELSE IF "pos" \in DOMAIN e /\ ~IsStr(e["pos"]) THEN "AttributeError"
    ELSE ""

\* validate_entry(entry): either raises, or returns (is_valid, errors)
validate_entry(e) ==
    IF validate_entry_raises(e) # ""
    THEN [outcome |-> "raised", exc |-> validate_entry_raises(e),
          is_valid |-> FALSE, errors |-> <<>>]
    ELSE LET errors == MissingFields(e, 1) \o IdFindings(e) \o ScriptFindings(e)
                       \o IpaFindings(e) \o PosFindings(e)
         IN  [outcome |-> "returned", exc |-> "",
              is_valid |-> (Len(errors) = 0), errors |-> errors]

\* The fixed text of each message, as code points
MsgText(msg) ==
    CASE msg = "Missing required field: " ->
            <<77, 105, 115, 115, 105, 110, 103, 32, 114, 101, 113, 117, 105,
              114, 101, 100, 32, 102, 105, 101, 108, 100, 58, 32>>
      [] msg = "Invalid ID format: " ->
            <<73, 110, 118, 97, 108, 105, 100, 32, 73, 68, 32, 102, 111, 114,
              109, 97, 116, 58, 32>>
      [] msg = "Invalid Myanmar script: " ->
            <<73, 110, 118, 97, 108, 105, 100, 32, 77, 121, 97, 110, 109, 97,
              114, 32, 115, 99, 114, 105, 112, 116, 58, 32>>
      [] msg = "Invalid IPA: " ->
            <<73, 110, 118, 97, 108, 105, 100, 32, 73, 80, 65, 58, 32>>
      [] msg = "Invalid POS: " ->
            <<73, 110, 118, 97, 108, 105, 100, 32, 80, 79, 83, 58, 32>>

\* str(v) as an f-string formats it: None prints as None
StrOf(v) == IF v = Null THEN <<78, 111, 110, 101>> ELSE v

\* A field name, as code points
FieldText(f) ==
    CASE f = "id" -> <<105, 100>>
      [] f = "rakhine" -> <<114, 97, 107, 104, 105, 110, 101>>
      [] f = "romanization" -> <<114, 111, 109, 97, 110, 105, 122, 97, 116, 105, 111, 110>>
      [] f = "pos" -> <<112, 111, 115>>
      [] f = "gloss_en" -> <<103, 108, 111, 115, 115, 95, 101, 110>>

\* f"{n:04X}": upper-case hexadecimal, at least four digits
RECURSIVE HexDigits(_)
HexDigits(n) ==
    LET dgt == n % 16
        c == IF dgt < 10 THEN 48 + dgt ELSE 55 + dgt
    IN  IF n < 16 THEN <<c>> ELSE Append(HexDigits(n \div 16), c)

Hex4(n) ==
    LET h == HexDigits(n)
    IN  [i \in 1..(4 - Len(h)) |-> 48] \o h

\* The second value _validate_rakhine_ipa returns, as code points
DetailText(detail, ch) ==
    CASE detail = "Empty IPA" -> <<69, 109, 112, 116, 121, 32, 73, 80, 65>>
      [] detail = "IPA must be enclosed in /slashes/ or [brackets]" ->
            <<73, 80, 65, 32, 109, 117, 115, 116, 32, 98, 101, 32, 101, 110,
              99, 108, 111, 115, 101, 100, 32, 105, 110, 32, 47, 115, 108,
              97, 115, 104, 101, 115, 47, 32, 111, 114, 32, 91, 98, 114, 97,
              99, 107, 101, 116, 115, 93>>
      [] detail = "Character not in valid IPA set" ->
            <<67, 104, 97, 114, 97, 99, 116, 101, 114, 32, 39>> \o <<ch>> \o <<39, 32, 40, 85, 43>> \o Hex4(ch)
                \o <<41, 32, 110, 111, 116, 32, 105, 110, 32, 118, 97, 108, 105, 100, 32, 73, 80, 65, 32, 115, 101, 116>>
      [] OTHER -> <<>>

\* The string validate_entry appends for a finding
FindingText(f) ==
    CASE f.msg = "Missing required field: " -> MsgText(f.msg) \o FieldText(f.field)
      [] f.msg = "Invalid IPA: " ->
            MsgText(f.msg) \o StrOf(f.value) \o <<32, 45, 32>>
                \o DetailText(f.detail, f.char)
      [] OTHER -> MsgText(f.msg) \o StrOf(f.value)

\* main, line 202: the test that counts an error string as critical
CountedCritical(text) ==
    \/ Contains(text,
            <<77, 105, 115, 115, 105, 110, 103, 32, 114, 101, 113, 117, 105,
              114, 101, 100, 32, 102, 105, 101, 108, 100>>)
    \/ Contains(text,
            <<73, 110, 118, 97, 108, 105, 100, 32, 77, 121, 97, 110, 109, 97,
              114, 32, 115, 99, 114, 105, 112, 116>>)

\* validate_lexicon_file: the exception the first entry that raises gives,
\* "" when every validate_entry returns
RECURSIVE FileRaises(_)
FileRaises(lexicon) ==
    IF lexicon = <<>> THEN ""
    ELSE IF validate_entry_raises(lexicon[1]) # ""
    THEN validate_entry_raises(lexicon[1])
    ELSE FileRaises(Tail(lexicon))

\* The error lists of results['invalid_entries'], one after the other
RECURSIVE FileFindings(_)
FileFindings(lexicon) ==
    IF lexicon = <<>> THEN <<>>
    ELSE validate_entry(lexicon[1]).errors \o FileFindings(Tail(lexicon))

\* main() on the parsed file data: [outcome, exc, exit code, findings].
\* Without a 'lexicon' key validate_lexicon_file returns {'error': ...} and
\* generate_validation_report raises KeyError on 'total_entries'.
main(data) ==
    IF "lexicon" \notin DOMAIN data
    THEN [outcome |-> "raised", exc |-> "KeyError", code |-> 1, errors |-> <<>>]
    ELSE IF FileRaises(data["lexicon"]) # ""
    THEN [outcome |-> "raised", exc |-> FileRaises(data["lexicon"]), code |-> 1,
          errors |-> <<>>]
    ELSE LET errors == FileFindings(data["lexicon"])
             critical_errors ==
                 Cardinality({k \in DOMAIN errors :
                                 CountedCritical(FindingText(errors[k]))})
         IN  [outcome |-> "exited", exc |-> "",
              code |-> IF critical_errors > 0 THEN 1 ELSE 0,
              errors |-> errors]

----------------------------------------------------------------------------
(* Lexicon Store: Sense, Etymology, LexiconEntry, RakhineLexicon *)

\* Sense(gloss_en, ...): the dataclass with its defaults
Sense(gloss_en, example, dialect) ==
    [gloss_en |-> gloss_en, gloss_my |-> Null, definition_en |-> Null,
     definition_my |-> Null, example |-> example, example_translation |-> Null,
     dialect |-> dialect, domain |-> Null]

\* Etymology(source, original, cognates, notes)
Etymology(source, original, cognates) ==
    [source |-> source, original |-> original, cognates |-> cognates,
     notes |-> Null]

\* LexiconEntry(...): the dataclass with its defaults; etymology is <<>> for
\* None and <<e>> for an Etymology object; created/modified are clock readings
LexiconEntry(id, rakhine, romanization, pos, senses, ipa, synonyms, etymology) ==
    [id |-> id, rakhine |-> rakhine, romanization |-> romanization, pos |-> pos,
     senses |-> senses, ipa |-> ipa, syllable_structure |-> Null, tone |-> Null,
     root |-> Null, derivation |-> Null, inflection |-> Null,
     synonyms |-> synonyms, antonyms |-> <<>>, etymology |-> etymology,
     notes |-> Null, source |-> Null, created |-> 0, modified |-> 0]

\* The attributes of LexiconEntry that hold a str (or None)
StrFields ==
    {"id", "rakhine", "romanization", "pos", "ipa", "syllable_structure",
     "tone", "root", "derivation", "inflection", "notes", "source"}

\* The attributes of LexiconEntry that hold a list of str
StrListFields == {"synonyms", "antonyms"}

\* self.entries.keys(): the dict is kept as the sequence of its values in
\* insertion order, each stored under its own id
Keys(es) == {es[i].id : i \in DOMAIN es}

\* self.entries[id]
Get(es, id) == es[CHOOSE i \in DOMAIN es : es[i].id = id]

\* What an operation leaves behind for its caller: the exception raised
\* ("" when it returned) and the value returned
Op(op, id, e, query, field, exact, err, result) ==
    [op |-> op, id |-> id, entry |-> e, query |-> query, field |-> field,
     exact |-> exact, err |-> err, result |-> result]

NoOp == Op("none", <<>>, <<>>, <<>>, "", FALSE, "", <<>>)

\* add_entry with the duplicate check dropped: the new entry replaces the old
add_entry_overwrite(e) ==
    /\ entries' = IF e.id \in Keys(entries)
                  THEN [i \in DOMAIN entries |->
                            IF entries[i].id = e.id THEN e ELSE entries[i]]
                  ELSE Append(entries, e)
    /\ modified' = now
    /\ lastOp' = Op("add", e.id, <<e>>, <<>>, "", FALSE, "", <<>>)
    /\ UNCHANGED <<now, valVars, audioVars, raceVars, recVars>>

\* RakhineLexicon.add_entry(entry)
add_entry(e) ==
    /\ IF e.id \in Keys(entries)
       THEN /\ lastOp' = Op("add", e.id, <<e>>, <<>>, "", FALSE, "ValueError", <<>>)
            /\ UNCHANGED <<entries, modified>>
       ELSE /\ entries' = Append(entries, e)
            /\ modified' = now
            /\ lastOp' = Op("add", e.id, <<e>>, <<>>, "", FALSE, "", <<>>)
    /\ UNCHANGED <<now, valVars, audioVars, raceVars, recVars>>

\* remove_entry deleting by position of the first match and everything after
remove_entry_truncating(entry_id) ==
    /\ IF entry_id \notin Keys(entries)
       THEN /\ lastOp' = Op("remove", entry_id, <<>>, <<>>, "", FALSE, "KeyError", <<>>)
            /\ UNCHANGED <<entries, modified>>
       ELSE /\ entries' = SubSeq(entries, 1,
                             (CHOOSE i \in DOMAIN entries : entries[i].id = entry_id) - 1)
            /\ modified' = now
            /\ lastOp' = Op("remove", entry_id, <<>>, <<>>, "", FALSE, "", <<>>)
    /\ UNCHANGED <<now, valVars, audioVars, raceVars, recVars>>

\* RakhineLexicon.remove_entry(entry_id)
remove_entry(entry_id) ==
    /\ IF entry_id \notin Keys(entries)
       THEN /\ lastOp' = Op("remove", entry_id, <<>>, <<>>, "", FALSE, "KeyError", <<>>)
            /\ UNCHANGED <<entries, modified>>
       ELSE /\ entries' = SelectSeq(entries, LAMBDA x : x.id # entry_id)
            /\ modified' = now
            /\ lastOp' = Op("remove", entry_id, <<>>, <<>>, "", FALSE, "", <<>>)
    /\ UNCHANGED <<now, valVars, audioVars, raceVars, recVars>>

\* The test search() applies to one entry: getattr(entry, field, None), the
\* falsy skip, then the str branch or the list branch
SearchMatches(e, query, field, exact) ==
    IF field \in StrFields
    THEN /\ Truthy(e[field])
         /\ IF exact THEN query = e[field]
                     ELSE Contains(Lower(e[field]), Lower(query))
    ELSE IF field \in StrListFields
    THEN \E i \in DOMAIN e[field] : Contains(Lower(e[field][i]), Lower(query))
    ELSE FALSE    \* no such attribute (None), or neither a str nor a list

\* search() over the "senses" attribute calls lower() on a Sense object
SearchRaises(es, field) ==
    IF field = "senses" /\ \E i \in DOMAIN es : es[i].senses # <<>>
    THEN "AttributeError" ELSE ""

\* RakhineLexicon.search(query, field, exact): the matching entries in
\* store-iteration order
SearchResult(es, query, field, exact) ==
    SelectSeq(es, LAMBDA e : SearchMatches(e, query, field, exact))

search(query, field, exact) ==
    /\ lastOp' = IF SearchRaises(entries, field) # ""
                 THEN Op("search", <<>>, <<>>, query, field, exact,
                         SearchRaises(entries, field), <<>>)
                 ELSE Op("search", <<>>, <<>>, query, field, exact, "",
                         SearchResult(entries, query, field, exact))
    /\ UNCHANGED <<entries, modified, now, valVars, audioVars, raceVars, recVars>>

\* One element of the list RakhineLexicon.validate returns; field
\* f'sense_{i}_gloss_en' is the pair of field "sense_gloss_en" and index i
\* (index -1 for the other fields)
StoreFinding(entry_id, field, index, message) ==
    [entry_id |-> entry_id, type |-> "missing_field", field |-> field,
     index |-> index, message |-> message]

\* The inner loop of validate that reports the first sense without gloss_en
\* only
RECURSIVE SenseFindings_first_only(_, _)
SenseFindings_first_only(e, i) ==
    IF i > Len(e.senses) THEN <<>>
    ELSE IF ~Truthy(e.senses[i].gloss_en)
    THEN <<StoreFinding(e.id, "sense_gloss_en", i - 1,
                        "Sense missing English gloss")>>
    ELSE SenseFindings_first_only(e, i + 1)

\* Lines 277-284: for i, sense in enumerate(entry.senses), from the sense at
\* position i (enumerate counts from 0)
RECURSIVE SenseFindings(_, _)
SenseFindings(e, i) ==
    IF i > Len(e.senses) THEN <<>>
    ELSE (IF ~Truthy(e.senses[i].gloss_en)
          THEN <<StoreFinding(e.id, "sense_gloss_en", i - 1,
                              "Sense missing English gloss")>>
          ELSE <<>>)
         \o SenseFindings(e, i + 1)

\* Lines 244-284: the findings validate appends for one entry
EntryFindings(e) ==
    (IF ~Truthy(e.rakhine)
     THEN <<StoreFinding(e.id, "rakhine", -1, "Missing Rakhine word")>> ELSE <<>>)
    \o (IF ~Truthy(e.romanization)
        THEN <<StoreFinding(e.id, "romanization", -1, "Missing romanization")>>
        ELSE <<>>)
    \o (IF ~Truthy(e.pos)
        THEN <<StoreFinding(e.id, "pos", -1, "Missing part of speech")>> ELSE <<>>)
    \o (IF e.senses = <<>>
        THEN <<StoreFinding(e.id, "senses", -1, "Entry has no senses")>>
        ELSE SenseFindings(e, 1))

\* RakhineLexicon.validate(): the findings of every entry, in store order
RECURSIVE StoreFindings(_)
StoreFindings(es) ==
    IF es = <<>> THEN <<>>
    ELSE EntryFindings(es[1]) \o StoreFindings(Tail(es))

validate ==
    /\ lastOp' = Op("validate", <<>>, <<>>, <<>>, "", FALSE, "", StoreFindings(entries))
    /\ UNCHANGED <<entries, modified, now, valVars, audioVars, raceVars, recVars>>

\* datetime.now() moves on
Tick ==
    /\ now < MaxTime
    /\ now' = now + 1
    /\ UNCHANGED <<entries, modified, lastOp, valVars, audioVars, raceVars, recVars>>

\* The fields of the three dataclasses
SenseFieldNames ==
    {"gloss_en", "gloss_my", "definition_en", "definition_my", "example",
     "example_translation", "dialect", "domain"}

EtymologyFieldNames == {"source", "original", "cognates", "notes"}

EntryFieldNames ==
    {"id", "rakhine", "romanization", "pos", "senses", "ipa",
     "syllable_structure", "tone", "root", "derivation", "inflection",
     "synonyms", "antonyms", "etymology", "notes", "source", "created",
     "modified"}

\* dataclasses.asdict of a Sense or an Etymology: one key per field
AsDict(obj, names) == [k \in names |-> obj[k]]

\* LexiconEntry.to_dict(): the dict json.dump writes and json.load reads back
\* (str, list, None and dict values come back as they went); an optional
\* etymology stays <<>> for None/null and <<d>> for a dict
to_dict(e) ==
    [k \in EntryFieldNames |->
        CASE k = "senses" ->
                [i \in DOMAIN e.senses |-> AsDict(e.senses[i], SenseFieldNames)]
          [] k = "etymology" ->
                [i \in DOMAIN e.etymology |->
                    AsDict(e.etymology[i], EtymologyFieldNames)]
          [] OTHER -> e[k]]

\* cls(**d) of a dataclass with these fields, of which required have no
\* default: TypeError on an unexpected or a missing argument
BuildRaises(d, names, required) ==
    \/ DOMAIN d \ names # {}
    \/ required \ DOMAIN d # {}

\* Sense(**sense_data)
SenseFromDict(d) ==
    [k \in SenseFieldNames |-> IF k \in DOMAIN d THEN d[k] ELSE Null]

\* Etymology(**etymology_data)
EtymologyFromDict(d) ==
    [k \in EtymologyFieldNames |->
        IF k \in DOMAIN d THEN d[k]
        ELSE IF k = "cognates" THEN <<>> ELSE Null]

\* The value cls(...) gives a field the dict does not name, at clock time t
EntryDefault(k, t) ==
    CASE k \in {"synonyms", "antonyms"} -> <<>>
      [] k \in {"created", "modified"} -> t
      [] OTHER -> Null

\* from_dict with created and modified stamped anew instead of taken from the
\* dict
from_dict_restamping(data, t) ==
    LET senses_data == IF "senses" \in DOMAIN data THEN data["senses"] ELSE <<>>
        etymology_data == IF "etymology" \in DOMAIN data THEN data["etymology"]
                          ELSE <<>>
        rest == [k \in DOMAIN data \ {"senses", "etymology"} |-> data[k]]
    IN  IF \/ \E i \in DOMAIN senses_data :
                 BuildRaises(senses_data[i], SenseFieldNames, {"gloss_en"})
           \/ \E i \in DOMAIN etymology_data :
                 BuildRaises(etymology_data[i], EtymologyFieldNames, {})
           \/ BuildRaises(rest, EntryFieldNames,
                          {"id", "rakhine", "romanization", "pos"})
        THEN [err |-> "TypeError", entry |-> <<>>]
        ELSE [err |-> "",
              entry |->
                [k \in EntryFieldNames |->
                    CASE k = "senses" ->
                            [i \in DOMAIN senses_data |-> SenseFromDict(senses_data[i])]
                      [] k = "etymology" ->
                            [i \in DOMAIN etymology_data |->
                                EtymologyFromDict(etymology_data[i])]
                      [] k \in {"created", "modified"} -> t
                      [] k \in DOMAIN rest -> rest[k]
                      [] OTHER -> EntryDefault(k, t)]]

\* LexiconEntry.from_dict(data) at clock time t: the entry, or the exception
from_dict(data, t) ==
    LET senses_data == IF "senses" \in DOMAIN data THEN data["senses"] ELSE <<>>
        etymology_data == IF "etymology" \in DOMAIN data THEN data["etymology"]
                          ELSE <<>>
        rest == [k \in DOMAIN data \ {"senses", "etymology"} |-> data[k]]
    IN  IF \/ \E i \in DOMAIN senses_data :
                 BuildRaises(senses_data[i], SenseFieldNames, {"gloss_en"})
           \/ \E i \in DOMAIN etymology_data :
                 BuildRaises(etymology_data[i], EtymologyFieldNames, {})
           \/ BuildRaises(rest, EntryFieldNames,
                          {"id", "rakhine", "romanization", "pos"})
        THEN [err |-> "TypeError", entry |-> <<>>]
        ELSE [err |-> "",
              entry |->
                [k \in EntryFieldNames |->
                    CASE k = "senses" ->
                            [i \in DOMAIN senses_data |-> SenseFromDict(senses_data[i])]
                      [] k = "etymology" ->
                            [i \in DOMAIN etymology_data |->
                                EtymologyFromDict(etymology_data[i])]
                      [] k \in DOMAIN rest -> rest[k]
                      [] OTHER -> EntryDefault(k, t)]]

\* self.entries[entry.id] = entry: a known key keeps its place in the dict
Put(es, e) ==
    IF e.id \in Keys(es)
    THEN [i \in DOMAIN es |-> IF es[i].id = e.id THEN e ELSE es[i]]
    ELSE Append(es, e)

\* The loop of load over entries_data from position i: the entries of the
\* store when it ends or from_dict raises
RECURSIVE LoadLoop(_, _, _, _)
LoadLoop(es, entries_data, i, t) ==
    IF i > Len(entries_data) THEN [err |-> "", entries |-> es]
    ELSE LET r == from_dict(entries_data[i], t)
         IN  IF r.err # "" THEN [err |-> r.err, entries |-> es]
             ELSE LoadLoop(Put(es, r.entry), entries_data, i + 1, t)

\* lexicon.save(filepath): entry holds the file's data
save ==
    /\ entry' = [metadata |-> [modified |-> modified],
                 lexicon |-> [i \in DOMAIN entries |-> to_dict(entries[i])]]
    /\ modified' = now
    /\ lastOp' = Op("save", <<>>, <<>>, <<>>, "", FALSE, "", <<>>)
    /\ UNCHANGED <<entries, now, validated, audioVars, raceVars, recVars>>

\* RakhineLexicon(filepath): a new store loaded from the file; its entries
\* are what the caller is left with
load ==
    LET entries_data == IF "lexicon" \in DOMAIN entry THEN entry["lexicon"] ELSE <<>>
        r == LoadLoop(<<>>, entries_data, 1, now)
    IN  /\ lastOp' = Op("load", <<>>, <<>>, <<>>, "", FALSE, r.err, r.entries)
        /\ UNCHANGED <<entries, modified, now, valVars, audioVars, raceVars, recVars>>

\* counter[key] = counter.get(key, 0) + 1
Count(counter, key) ==
    [k \in DOMAIN counter \cup {key} |->
        IF k = key THEN (IF key \in DOMAIN counter THEN counter[key] ELSE 0) + 1
        ELSE counter[k]]

\* The loop of get_statistics with senses_count raised by one for an entry
\* that has senses, whatever their number
RECURSIVE StatLoop_per_entry(_, _, _, _, _)
StatLoop_per_entry(es, i, pos_counter, dialect_counter, senses_count) ==
    IF i > Len(es)
    THEN [pos |-> pos_counter, dialect |-> dialect_counter, senses |-> senses_count]
    ELSE StatLoop_per_entry(es, i + 1, Count(pos_counter, es[i].pos), dialect_counter,
                            senses_count + (IF es[i].senses = <<>> THEN 0 ELSE 1))

\* for sense in entry.senses: the dialect counter after the senses from j
RECURSIVE CountDialects(_, _, _)
CountDialects(senses, j, dialect_counter) ==
    IF j > Len(senses) THEN dialect_counter
    ELSE CountDialects(senses, j + 1,
                       IF Truthy(senses[j].dialect)
                       THEN Count(dialect_counter, senses[j].dialect)
                       ELSE dialect_counter)

\* for entry in self.entries.values(): the three accumulators after the
\* entries from position i
RECURSIVE StatLoop(_, _, _, _, _)
StatLoop(es, i, pos_counter, dialect_counter, senses_count) ==
    IF i > Len(es)
    THEN [pos |-> pos_counter, dialect |-> dialect_counter, senses |-> senses_count]
    ELSE StatLoop(es, i + 1, Count(pos_counter, es[i].pos),
                  CountDialects(es[i].senses, 1, dialect_counter),
                  senses_count + Len(es[i].senses))

\* get_statistics(): the dict returned; the average is the exact quotient
\* num/den, 0 for an empty store
get_statistics(es) ==
    LET total_entries == Len(es)
        acc == StatLoop(es, 1, <<>>, <<>>, 0)
    IN  [total_entries |-> total_entries,
         total_senses |-> acc.senses,
         average_senses_per_entry |->
             IF total_entries > 0 THEN [num |-> acc.senses, den |-> total_entries]
             ELSE [num |-> 0, den |-> 1],
         pos_distribution |-> acc.pos,
         dialect_distribution |-> acc.dialect,
         entries_with_ipa |-> Cardinality({i \in DOMAIN es : Truthy(es[i].ipa)}),
         entries_with_examples |->
             Cardinality({i \in DOMAIN es :
                             \E j \in DOMAIN es[i].senses :
                                Truthy(es[i].senses[j].example)}),
         entries_with_etymology |->
             Cardinality({i \in DOMAIN es : Len(es[i].etymology) > 0})]

\* stats = lexicon.get_statistics()
GetStatistics ==
    /\ lastOp' = Op("statistics", <<>>, <<>>, <<>>, "", FALSE, "",
                    get_statistics(entries))
    /\ UNCHANGED <<entries, modified, now, valVars, audioVars, raceVars, recVars>>

----------------------------------------------------------------------------
(* Audio Link Store: AudioIntegrator *)

\* calculate_file_hash: the MD5 digest of the file's bytes; equal bytes give
\* equal digests and (no collisions) different bytes different digests
calculate_file_hash(f) == <<"md5", f.content>>

\* The container facts soundfile and stat() read from the file: duration,
\* sample_rate, channels, format, filesize; they depend on the bytes alone
ContainerFacts(f) ==
    [duration |-> f.content, sample_rate |-> 16000, channels |-> 1,
     format |-> "WAV-PCM_16", filesize |-> 1000 + f.content]

\* metadata.get(k) and metadata.get(k, default)
MGet(m, k) == IF k \in DOMAIN m THEN m[k] ELSE Null
MGetDefault(m, k, d) == IF k \in DOMAIN m THEN m[k] ELSE d

\* The row of audio_files with this file_hash, as SELECT id ... fetchone() sees it
RowsWithHash(af, h) == {i \in DOMAIN af : af[i].file_hash = h}

\* The row import_audio_file inserts; AUTOINCREMENT numbers it after the
\* largest id handed out (rows are never deleted)
NewAudioRow(af, f, m) ==
    [id |-> Len(af) + 1,
     file_hash |-> calculate_file_hash(f),
     filename |-> f.name,
     filepath |-> f.name,
     entry_id |-> MGet(m, "entry_id"),
     speaker_id |-> MGet(m, "speaker_id"),
     dialect |-> MGet(m, "dialect"),
     gender |-> MGet(m, "gender"),
     facts |-> ContainerFacts(f),
     recording_date |-> MGet(m, "recording_date"),
     quality_score |-> MGetDefault(m, "quality_score", <<49, 46, 48>>)]

\* A value json.dumps raises TypeError on, such as a set
NotJson == <<-3>>

\* json.dumps(metadata.get('other_languages', [])) raises
DumpRaises(m) == "other_languages" \in DOMAIN m /\ m["other_languages"] = NotJson

\* The row INSERT OR REPLACE INTO speakers writes
NewSpeakerRow(m) ==
    [speaker_id |-> m["speaker_id"],
     gender |-> MGet(m, "speaker_gender"),
     age |-> MGet(m, "speaker_age"),
     dialect |-> MGet(m, "dialect"),
     native_speaker |-> MGetDefault(m, "native_speaker", TRUE),
     location |-> MGet(m, "recording_location"),
     other_languages |-> MGetDefault(m, "other_languages", <<91, 93>>),
     notes |-> MGetDefault(m, "speaker_notes", <<>>)]

\* INSERT OR IGNORE of one speakers row: a stored row is kept
PutSpeaker_or_ignore(sp, row) ==
    [k \in DOMAIN sp \cup {row.speaker_id} |->
        IF k \in DOMAIN sp THEN sp[k] ELSE row]

\* INSERT OR REPLACE of one speakers row: speaker_id is the primary key
PutSpeaker(sp, row) ==
    [k \in DOMAIN sp \cup {row.speaker_id} |->
        IF k = row.speaker_id THEN row ELSE sp[k]]

\* INSERT OR REPLACE INTO speakers, when metadata.get('speaker_id') is truthy
UpsertSpeaker(sp, m) ==
    IF Truthy(MGet(m, "speaker_id"))
    THEN PutSpeaker(sp, NewSpeakerRow(m))
    ELSE sp

\* What one call leaves: the tables, the exception raised ("" if none), the
\* id returned and the line printed
Outcome(af, sp, err, ret, printed) ==
    [af |-> af, sp |-> sp, err |-> err, ret |-> ret, printed |-> printed]

\* import_audio_file that writes the speaker row before it looks the hash up
import_audio_file_upsert_first(af, sp, f, m) ==
    IF f.kind = "unreadable"
    THEN Outcome(af, sp, "OSError", 0, "")
    ELSE IF f.kind = "notaudio"
    THEN Outcome(af, sp, "LibsndfileError", 0, "")
    ELSE LET existing == RowsWithHash(af, calculate_file_hash(f))
         IN  IF existing # {}
             THEN Outcome(af, UpsertSpeaker(sp, m), "",
                          af[CHOOSE i \in existing : TRUE].id,
                          "File already exists in database")
             ELSE Outcome(Append(af, NewAudioRow(af, f, m)),
                          UpsertSpeaker(sp, m), "", Len(af) + 1, "")

\* import_audio_file(filepath, metadata) by a single caller, on tables af, sp
import_audio_file(af, sp, f, m) ==
    IF f.kind = "unreadable"
    THEN Outcome(af, sp, "OSError", 0, "")                  \* open() fails
    ELSE IF f.kind = "notaudio"
    THEN Outcome(af, sp, "LibsndfileError", 0, "")          \* sf.SoundFile fails
    ELSE LET existing == RowsWithHash(af, calculate_file_hash(f))
         IN  IF existing # {}
             THEN Outcome(af, sp, "",
                          af[CHOOSE i \in existing : TRUE].id,
                          "File already exists in database")
             ELSE IF Truthy(MGet(m, "speaker_id")) /\ DumpRaises(m)
             THEN Outcome(af, sp, "TypeError", 0, "")        \* rolled back
             ELSE Outcome(Append(af, NewAudioRow(af, f, m)),
                          UpsertSpeaker(sp, m), "", Len(af) + 1, "")

\* The UPDATE of link_audio_to_lexicon without its WHERE clause
link_audio_to_lexicon_every_row(af, audio_file_id, entry_id) ==
    [i \in DOMAIN af |-> [af[i] EXCEPT !.entry_id = entry_id]]

\* link_audio_to_lexicon(audio_file_id, entry_id):
\* UPDATE audio_files SET entry_id = ? WHERE id = ?
\* (foreign keys are not enforced: no PRAGMA foreign_keys is issued)
link_audio_to_lexicon(af, audio_file_id, entry_id) ==
    [i \in DOMAIN af |->
        IF af[i].id = audio_file_id
        THEN [af[i] EXCEPT !.entry_id = entry_id]
        ELSE af[i]]

\* str.split(sep) for a one-character sep
RECURSIVE Split(_, _)
Split(s, sep) ==
    LET hits == {i \in DOMAIN s : s[i] = sep}
    IN  IF hits = {} THEN <<s>>
        ELSE LET i == CHOOSE k \in hits : \A j \in hits : k <= j
             IN  <<SubSeq(s, 1, i - 1)>> \o Split(SubSeq(s, i + 1, Len(s)), sep)

\* Path.stem: the name without its last suffix
Stem(name) ==
    LET dots == {i \in DOMAIN name : name[i] = 46 /\ i > 1}
    IN  IF dots = {} THEN name
        ELSE SubSeq(name, 1, (CHOOSE k \in dots : \A j \in dots : k >= j) - 1)

\* metadata[key] = parts[n] unless metadata.get(key) is truthy
FillFromName(m, key, parts, n) ==
    IF Len(parts) >= n /\ ~Truthy(MGet(m, key))
    THEN [k \in DOMAIN m \cup {key} |-> IF k = key THEN parts[n] ELSE m[k]]
    ELSE m

\* The metadata batch_import_directory uses for one file: the explicit entry
\* of metadata_map, completed from the positions of the file name
BatchMetadata(mm, f) ==
    LET m0 == IF f.name \in DOMAIN mm THEN mm[f.name] ELSE <<>>
        parts == Split(Stem(f.name), 95)
        m1 == FillFromName(m0, "entry_id", parts, 1)
        m2 == FillFromName(m1, "speaker_id", parts, 2)
        m3 == FillFromName(m2, "dialect", parts, 3)
    IN  FillFromName(m3, "gender", parts, 4)

\* One element of the results list
FileResult(f, success, id, linked, error) ==
    [filename |-> f.name, success |-> success, audio_file_id |-> id,
     entry_linked |-> linked, error |-> error]

\* batch_import_directory that stops at the first file that fails
RECURSIVE BatchLoopAborting(_, _, _, _, _, _)
BatchLoopAborting(af, sp, results, files, mm, i) ==
    IF i > Len(files) THEN [af |-> af, sp |-> sp, results |-> results]
    ELSE LET f == files[i]
             metadata == BatchMetadata(mm, f)
             imp == import_audio_file(af, sp, f, metadata)
         IN  IF imp.err # ""
             THEN [af |-> af, sp |-> sp,
                   results |-> Append(results, FileResult(f, FALSE, 0, FALSE, imp.err))]
             ELSE LET linked == Truthy(MGet(metadata, "entry_id"))
                      af2 == IF linked
                             THEN link_audio_to_lexicon(imp.af, imp.ret,
                                                        metadata["entry_id"])
                             ELSE imp.af
                  IN  BatchLoopAborting(af2, imp.sp,
                                Append(results, FileResult(f, TRUE, imp.ret, linked, "")),
                                files, mm, i + 1)

\* The loop of batch_import_directory over the files found from position i:
\* the tables and results list it ends with
RECURSIVE BatchLoop(_, _, _, _, _, _)
BatchLoop(af, sp, results, files, mm, i) ==
    IF i > Len(files) THEN [af |-> af, sp |-> sp, results |-> results]
    ELSE LET f == files[i]
             metadata == BatchMetadata(mm, f)
             imp == import_audio_file(af, sp, f, metadata)
         IN  IF imp.err # ""
             THEN BatchLoop(af, sp,
                            Append(results, FileResult(f, FALSE, 0, FALSE, imp.err)),
                            files, mm, i + 1)
             ELSE LET linked == Truthy(MGet(metadata, "entry_id"))
                      af2 == IF linked
                             THEN link_audio_to_lexicon(imp.af, imp.ret,
                                                        metadata["entry_id"])
                             ELSE imp.af
                  IN  BatchLoop(af2, imp.sp,
                                Append(results, FileResult(f, TRUE, imp.ret, linked, "")),
                                files, mm, i + 1)

\* What an Audio Link Store call leaves for its caller
AOp(op, metadata, err, ret, printed, files, results) ==
    [op |-> op, metadata |-> metadata, err |-> err, ret |-> ret,
     printed |-> printed, files |-> files, results |-> results]

NoAOp == AOp("none", <<>>, "", 0, "", <<>>, <<>>)

\* integrator.import_audio_file(f, m)
ImportFile(f, m) ==
    LET r == import_audio_file(audio_files, speakers, f, m)
    IN  /\ audio_files' = r.af
        /\ speakers' = r.sp
        /\ audioOp' = AOp("import", m, r.err, r.ret, r.printed, <<f>>, <<>>)
        /\ UNCHANGED <<valVars, storeVars, raceVars, recVars>>

\* integrator.link_audio_to_lexicon(audio_file_id, entry_id)
LinkToEntry(audio_file_id, entry_id) ==
    /\ audio_files' = link_audio_to_lexicon(audio_files, audio_file_id, entry_id)
    /\ audioOp' = AOp("link", [entry_id |-> entry_id], "", audio_file_id, "", <<>>, <<>>)
    /\ UNCHANGED <<speakers, valVars, storeVars, raceVars, recVars>>

\* integrator.batch_import_directory(directory, metadata_file): files is the
\* list the globs produce, mm the metadata_map read from metadata_file
BatchImportDirectory(files, mm) ==
    LET r == BatchLoop(audio_files, speakers, <<>>, files, mm, 1)
    IN  /\ audio_files' = r.af
        /\ speakers' = r.sp
        /\ audioOp' = AOp("batch", mm, "", 0, "", files, r.results)
        /\ UNCHANGED <<valVars, storeVars, raceVars, recVars>>

----------------------------------------------------------------------------
(* Audio Link Store: import_audio_file run by several callers at once, each  *)
(* on its own connection to the one SQLite database.  A SELECT sees the      *)
(* committed rows only; the first write of a transaction takes the           *)
(* database's write lock, held until the transaction is committed or its     *)
(* connection is discarded; a writer that cannot get the lock within the     *)
(* connection's timeout gets sqlite3.OperationalError.                       *)

\* One caller's call of import_audio_file: where it stands (pc), its
\* arguments, the rows its open transaction has written, and what it gave
\* its caller
Call(pc, f, m, row, speaker, ret, err, printed) ==
    [pc |-> pc, f |-> f, m |-> m, row |-> row, speaker |-> speaker,
     ret |-> ret, err |-> err, printed |-> printed]

NoFile == [name |-> <<>>, content |-> 0, kind |-> "none"]

NoCall == Call("idle", NoFile, <<>>, <<>>, <<>>, 0, "", "")

\* file_hash TEXT without the UNIQUE constraint
UniqueViolation_unconstrained(af, h) == FALSE

\* file_hash TEXT UNIQUE: an INSERT of a hash the table holds is refused with
\* sqlite3.IntegrityError
UniqueViolation(af, h) == RowsWithHash(af, h) # {}

\* Lines 82-99: hash the file, read its container facts, open a connection
BeginImport(i, f, m) ==
    /\ importer[i].pc \in {"idle", "done", "raised"}
    /\ dbLock # i
    /\ importer' = [importer EXCEPT ![i] =
            IF f.kind = "unreadable"
            THEN Call("raised", f, m, <<>>, <<>>, 0, "OSError", "")
            ELSE IF f.kind = "notaudio"
            THEN Call("raised", f, m, <<>>, <<>>, 0, "LibsndfileError", "")
            ELSE Call("lookup", f, m, <<>>, <<>>, 0, "", "")]
    /\ UNCHANGED <<dbLock, audioVars, valVars, storeVars, recVars>>

\* Lines 101-108: SELECT id FROM audio_files WHERE file_hash = ?; return the
\* id found
LookupHash(i) ==
    LET c == importer[i]
        existing == RowsWithHash(audio_files, calculate_file_hash(c.f))
    IN  /\ c.pc = "lookup"
        /\ importer' = [importer EXCEPT ![i] =
                IF existing # {}
                THEN [c EXCEPT !.pc = "done",
                               !.ret = audio_files[CHOOSE k \in existing : TRUE].id,
                               !.printed = "File already exists in database"]
                ELSE [c EXCEPT !.pc = "insert"]]
        /\ UNCHANGED <<dbLock, audioVars, valVars, storeVars, recVars>>

\* Lines 110-133: INSERT INTO audio_files, once the write lock is free
InsertRow(i) ==
    LET c == importer[i]
    IN  /\ c.pc = "insert"
        /\ dbLock = 0
        /\ dbLock' = i
        /\ importer' = [importer EXCEPT ![i] =
                IF UniqueViolation(audio_files, calculate_file_hash(c.f))
                THEN [c EXCEPT !.pc = "raised", !.err = "IntegrityError"]
                ELSE [c EXCEPT !.pc = "upsert",
                               !.row = <<NewAudioRow(audio_files, c.f, c.m)>>,
                               !.ret = Len(audio_files) + 1]]
        /\ UNCHANGED <<audioVars, valVars, storeVars, recVars>>

\* Lines 98, 111: the INSERT waits for another connection's write lock until
\* the connection's timeout has passed
LockTimeout(i) ==
    LET c == importer[i]
    IN  /\ c.pc = "insert"
        /\ dbLock \notin {0, i}
        /\ importer' = [importer EXCEPT ![i] =
                [c EXCEPT !.pc = "raised", !.err = "OperationalError"]]
        /\ UNCHANGED <<dbLock, audioVars, valVars, storeVars, recVars>>

\* Lines 135-150: INSERT OR REPLACE INTO speakers, in the same transaction
UpsertSpeakerRow(i) ==
    LET c == importer[i]
    IN  /\ c.pc = "upsert"
        /\ importer' = [importer EXCEPT ![i] =
                IF Truthy(MGet(c.m, "speaker_id")) /\ DumpRaises(c.m)
                THEN [c EXCEPT !.pc = "raised", !.err = "TypeError", !.ret = 0]
                ELSE [c EXCEPT !.pc = "commit",
                               !.speaker = IF Truthy(MGet(c.m, "speaker_id"))
                                           THEN <<NewSpeakerRow(c.m)>> ELSE <<>>]]
        /\ UNCHANGED <<dbLock, audioVars, valVars, storeVars, recVars>>

\* conn.commit() that makes the audio row visible and loses the speaker row
Commit_audio_only(i) ==
    LET c == importer[i]
    IN  /\ c.pc = "commit"
        /\ audio_files' = audio_files \o c.row
        /\ dbLock' = 0
        /\ importer' = [importer EXCEPT ![i] =
                [c EXCEPT !.pc = "done", !.row = <<>>, !.speaker = <<>>]]
        /\ UNCHANGED <<speakers, audioOp, valVars, storeVars, recVars>>

\* Lines 152-155: conn.commit(), conn.close(), return audio_file_id
Commit(i) ==
    LET c == importer[i]
    IN  /\ c.pc = "commit"
        /\ audio_files' = audio_files \o c.row
        /\ speakers' = IF c.speaker # <<>>
                       THEN PutSpeaker(speakers, c.speaker[1]) ELSE speakers
        /\ dbLock' = 0
        /\ importer' = [importer EXCEPT ![i] =
                [c EXCEPT !.pc = "done", !.row = <<>>, !.speaker = <<>>]]
        /\ UNCHANGED <<audioOp, valVars, storeVars, recVars>>

\* Line 98: conn is a local of the call; after an exception it is closed
\* when it is collected, which rolls its transaction back
DiscardConnection(i) ==
    /\ importer[i].pc = "raised"
    /\ dbLock = i
    /\ dbLock' = 0
    /\ importer' = [importer EXCEPT ![i].row = <<>>, ![i].speaker = <<>>]
    /\ UNCHANGED <<audioVars, valVars, storeVars, recVars>>

----------------------------------------------------------------------------
(* Audio Link Store: the reads.  Each SELECT runs in autocommit mode on its  *)
(* own connection and sees the committed rows of the moment it runs.         *)

\* Rows a connection would see if uncommitted writes were visible to it
ReaderSnapshot_uncommitted ==
    LET writers == {i \in DOMAIN importer : importer[i].row # <<>>}
    IN  IF writers = {} THEN audio_files
        ELSE audio_files \o importer[CHOOSE i \in writers : TRUE].row

\* The rows of audio_files a reading connection sees: the committed ones
ReaderSnapshot == audio_files

\* ORDER BY on a TEXT column: NULL first, then by code points
StrLE(a, b) ==
    IF a = Null THEN TRUE
    ELSE IF b = Null THEN FALSE
    ELSE LET n == IF Len(a) <= Len(b) THEN Len(a) ELSE Len(b)
             diff == {i \in 1..n : a[i] # b[i]}
         IN  IF diff = {} THEN Len(a) <= Len(b)
             ELSE LET i == CHOOSE k \in diff : \A j \in diff : k <= j
                  IN  a[i] < b[i]

\* ORDER BY k1, k2 of joined rows, rows with equal keys in rowid order
RowLE(x, y, k1, k2) ==
    IF x.row[k1] # y.row[k1] THEN StrLE(x.row[k1], y.row[k1])
    ELSE StrLE(x.row[k2], y.row[k2])

RECURSIVE InsertSorted(_, _, _, _)
InsertSorted(sorted, x, k1, k2) ==
    IF sorted = <<>> THEN <<x>>
    ELSE IF RowLE(sorted[Len(sorted)], x, k1, k2) THEN Append(sorted, x)
    ELSE Append(InsertSorted(SubSeq(sorted, 1, Len(sorted) - 1), x, k1, k2),
                sorted[Len(sorted)])

RECURSIVE OrderBy(_, _, _)
OrderBy(rows, k1, k2) ==
    IF rows = <<>> THEN <<>>
    ELSE InsertSorted(OrderBy(SubSeq(rows, 1, Len(rows) - 1), k1, k2),
                      rows[Len(rows)], k1, k2)

\* One row of a query: the audio_files row and the columns joined to it
Joined(row, extra) == [row |-> row, extra |-> extra]

\* query_audio_by_entry(entry_id): the rows, LEFT JOINed to speakers
query_audio_by_entry(af, sp, entry_id) ==
    LET sel == SelectSeq(af, LAMBDA r : entry_id # Null /\ r.entry_id = entry_id)
        join(r) ==
            IF r.speaker_id \in DOMAIN sp
            THEN [speaker_age |-> sp[r.speaker_id].age,
                  speaker_location |-> sp[r.speaker_id].location]
            ELSE [speaker_age |-> Null, speaker_location |-> Null]
    IN  OrderBy([i \in DOMAIN sel |-> Joined(sel[i], join(sel[i]))],
                "dialect", "speaker_id")

\* query_audio_by_dialect(dialect): the rows, LEFT JOINed to the table
\* lexicon, which init_database does not create: lexicon is Null when the
\* database has no such table, else its rows
query_audio_by_dialect(af, lexicon, dialect) ==
    IF lexicon = Null
    THEN [err |-> "OperationalError", rows |-> <<>>]
    ELSE LET sel == SelectSeq(af, LAMBDA r : dialect # Null /\ r.dialect = dialect)
             hit(r) == {k \in DOMAIN lexicon : lexicon[k].id = r.entry_id}
             join(r) ==
                 IF hit(r) # {}
                 THEN LET l == lexicon[CHOOSE k \in hit(r) : TRUE]
                      IN  [rakhine |-> l.rakhine, romanization |-> l.romanization,
                           gloss_en |-> l.gloss_en]
                 ELSE [rakhine |-> Null, romanization |-> Null, gloss_en |-> Null]
         IN  [err |-> "",
              rows |-> OrderBy([i \in DOMAIN sel |-> Joined(sel[i], join(sel[i]))],
                               "entry_id", "speaker_id")]

RECURSIVE TotalDuration(_)
TotalDuration(af) ==
    IF af = <<>> THEN 0
    ELSE af[Len(af)].facts.duration + TotalDuration(SubSeq(af, 1, Len(af) - 1))

\* SELECT col, COUNT(*) FROM audio_files GROUP BY col, as a dict
CountBy(af, col) ==
    [v \in {af[i][col] : i \in DOMAIN af} |->
        Cardinality({i \in DOMAIN af : af[i][col] = v})]

\* The k-th SELECT of get_database_stats and the entry of stats it fills;
\* total_duration_hours is the pair <<seconds, 3600>>
StatSelect(k, af) ==
    CASE k = 1 -> [total_audio_files |-> Len(af)]
      [] k = 2 -> [entries_with_audio |->
                      Cardinality({af[i].entry_id : i \in DOMAIN af} \ {Null})]
      [] k = 3 -> [files_by_dialect |-> CountBy(af, "dialect")]
      [] k = 4 -> [files_by_speaker |-> CountBy(af, "speaker_id")]
      [] k = 5 -> [total_duration_hours |-> <<TotalDuration(af), 3600>>]

\* A reader is between two SELECTs of get_database_stats
MidStats == audioOp.op = "stats" /\ audioOp.ret < 5

\* integrator.query_audio_by_entry(entry_id)
QueryByEntry(entry_id) ==
    /\ ~MidStats
    /\ audioOp' = AOp("query_entry", [entry_id |-> entry_id], "", 0, "", <<>>,
                      query_audio_by_entry(ReaderSnapshot, speakers, entry_id))
    /\ UNCHANGED <<audio_files, speakers, valVars, storeVars, raceVars, recVars>>

\* integrator.query_audio_by_dialect(dialect)
QueryByDialect(dialect, lexicon) ==
    LET r == query_audio_by_dialect(ReaderSnapshot, lexicon, dialect)
    IN  /\ ~MidStats
        /\ audioOp' = AOp("query_dialect", [dialect |-> dialect], r.err, 0, "",
                          <<>>, r.rows)
        /\ UNCHANGED <<audio_files, speakers, valVars, storeVars, raceVars, recVars>>

\* integrator.get_database_stats(): its first SELECT
BeginStats ==
    /\ ~MidStats
    /\ audioOp' = AOp("stats", <<>>, "", 1, "", <<>>, <<StatSelect(1, ReaderSnapshot)>>)
    /\ UNCHANGED <<audio_files, speakers, valVars, storeVars, raceVars, recVars>>

\* get_database_stats: its next SELECT; it returns after the fifth
NextStatSelect ==
    /\ MidStats
    /\ audioOp' = [audioOp EXCEPT
                      !.ret = @ + 1,
                      !.results = Append(@, StatSelect(audioOp.ret + 1, ReaderSnapshot))]
    /\ UNCHANGED <<audio_files, speakers, valVars, storeVars, raceVars, recVars>>

----------------------------------------------------------------------------
(* Audio index: create_audio_index (scripts/audio_processing.py) *)

\* 'unknown'
unknown == <<117, 110, 107, 110, 111, 119, 110>>

\* The dict appended to audio_files[entry_id] for one file of the directory
IndexedFile(f) ==
    LET parts == Split(Stem(f.name), 95)
    IN  [filename |-> f.name,
         path |-> f.name,
         size |-> ContainerFacts(f).filesize,
         speaker |-> IF Len(parts) > 1 THEN parts[2] ELSE unknown,
         dialect |-> IF Len(parts) > 2 THEN parts[3] ELSE unknown,
         gender |-> IF Len(parts) > 3 THEN parts[4] ELSE unknown]

\* The audio_files dict after the scan: entry_id -> list, in listing order
RECURSIVE ScanDirectory(_, _)
ScanDirectory(files, index) ==
    IF files = <<>> THEN index
    ELSE LET entry_id == Split(Stem(files[1].name), 95)[1]
             old == IF entry_id \in DOMAIN index THEN index[entry_id] ELSE <<>>
         IN  ScanDirectory(Tail(files),
                 [k \in DOMAIN index \cup {entry_id} |->
                     IF k = entry_id THEN Append(old, IndexedFile(files[1]))
                     ELSE index[k]])

\* entry['audio'].extend(audio_files[entry_id]) for an entry that has files
WithAudio(e, index) ==
    IF "id" \in DOMAIN e /\ e["id"] \in DOMAIN index
    THEN [k \in DOMAIN e \cup {"audio"} |->
             IF k = "audio"
             THEN (IF "audio" \in DOMAIN e THEN e["audio"] ELSE <<>>) \o index[e["id"]]
             ELSE e[k]]
    ELSE e

RECURSIVE TotalRecordings(_)
TotalRecordings(index) ==
    IF DOMAIN index = {} THEN 0
    ELSE LET k == CHOOSE k \in DOMAIN index : TRUE
         IN  Len(index[k]) + TotalRecordings([j \in DOMAIN index \ {k} |-> index[j]])

\* create_audio_index(lexicon_file, audio_dir, output_file): the lexicon
\* written to output_file and the index returned
create_audio_index(data, files) ==
    LET index == ScanDirectory(files, <<>>)
        lexicon == IF "lexicon" \in DOMAIN data THEN data["lexicon"] ELSE <<>>
    IN  [lexicon |-> [k \in DOMAIN lexicon |-> WithAudio(lexicon[k], index)],
         total_recordings |-> TotalRecordings(index),
         entries_with_audio |-> Cardinality(DOMAIN index),
         audio_by_entry |-> index]

\* index = create_audio_index(lexicon_file, audio_dir, output_file)
CreateAudioIndex(files) ==
    /\ audioOp.op = "none"
    /\ audioOp' = AOp("index", <<>>, "", 0, "", files,
                      create_audio_index(entry, files))
    /\ UNCHANGED <<valVars, storeVars, audio_files, speakers, raceVars, recVars>>

----------------------------------------------------------------------------
(* Audio recorder: AudioRecorder and its recording thread.  The caller and   *)
(* the recording threads run at once; an action is one step of one of them.  *)

\* self.chunk: the samples one stream.read returns
ChunkLen == 2

\* The n-th chunk the device delivers
Chunk(n) == [i \in 1..ChunkLen |-> n]

\* b''.join(self.frames)
RECURSIVE JoinFrames(_)
JoinFrames(fs) == IF fs = <<>> THEN <<>> ELSE Head(fs) \o JoinFrames(Tail(fs))

\* A thread running _record: where it is, the chunk it holds, the Stream
\* object its read call was made on
Thread(pc, data, s) == [pc |-> pc, data |-> data, s |-> s]

\* Thread.is_alive()
Alive(t) == threads[t].pc \notin {"done", "raised"}

\* The calling thread: where it is, the call it made last, what that call
\* returned or raised, and whether it returned at its first test
Caller(pc, op, ret, err, early) ==
    [pc |-> pc, op |-> op, ret |-> ret, err |-> err, early |-> early]

NoCallYet == Caller("idle", "none", <<>>, "", FALSE)

\* Lines 15-25: AudioRecorder.__init__
RecorderIdle ==
    /\ is_recording = FALSE
    /\ frames = <<>>
    /\ stream = 0
    /\ recording_thread = 0
    /\ audio = "ready"
    /\ streams = <<>>
    /\ threads = <<>>
    /\ caller = NoCallYet
    /\ captured = 0

\* Lines 32-44 of start_recording: audio.open gives a new stream, or raises
\* when the device cannot be opened
OpenAndStart ==
    /\ frames' = <<>>
    /\ is_recording' = TRUE
    /\ \/ /\ Len(streams) < MaxStreams
          /\ streams' = Append(streams, "open")
          /\ stream' = Len(streams) + 1
          /\ threads' = Append(threads, Thread("test", <<>>, 0))
          /\ recording_thread' = Len(threads) + 1
          /\ caller' = Caller("idle", "start_recording", <<>>, "", FALSE)
       \/ /\ caller' = Caller("idle", "start_recording", <<>>, "OSError", FALSE)
          /\ UNCHANGED <<stream, recording_thread, streams, threads>>

\* start_recording() without the test of line 29
start_recording_unguarded ==
    /\ caller.pc = "idle"
    /\ audio = "ready"
    /\ OpenAndStart
    /\ UNCHANGED <<audio, captured, valVars, storeVars, audioVars, raceVars>>

\* recorder.start_recording().  No recording thread is alive while
\* is_recording is False and the caller is outside stop_recording, so the
\* statements of lines 32-44 meet no step of another thread.
start_recording ==
    /\ caller.pc = "idle"
    /\ audio = "ready"
    /\ IF is_recording
       THEN /\ caller' = Caller("idle", "start_recording", <<>>, "", TRUE)
            /\ UNCHANGED <<is_recording, frames, stream, recording_thread,
                           streams, threads>>
       ELSE OpenAndStart
    /\ UNCHANGED <<audio, captured, valVars, storeVars, audioVars, raceVars>>

\* recorder.stop_recording(), lines 54-57: return b'' when not recording,
\* else clear the flag and go on to the join
stop_recording ==
    /\ caller.pc = "idle"
    /\ audio = "ready"
    /\ IF ~is_recording
       THEN /\ caller' = Caller("idle", "stop_recording", <<>>, "", TRUE)
            /\ UNCHANGED is_recording
       ELSE /\ is_recording' = FALSE
            /\ caller' = Caller("join", "stop_recording", <<>>, "", FALSE)
    /\ UNCHANGED <<frames, stream, recording_thread, audio, streams, threads,
                   captured, valVars, storeVars, audioVars, raceVars>>

\* Lines 61-67: stop and close the stream (stop_stream raises on a stream
\* that is closed already), join the frames and return them
CloseAndReturn ==
    IF stream # 0 /\ streams[stream] = "closed"
    THEN /\ caller' = Caller("idle", "stop_recording", <<>>, "OSError", FALSE)
         /\ UNCHANGED streams
    ELSE /\ streams' = [i \in DOMAIN streams |->
                            IF i = stream THEN "closed" ELSE streams[i]]
         /\ caller' = Caller("idle", "stop_recording", JoinFrames(frames), "", FALSE)

\* Lines 58-67 with the join of line 59 left out
join_and_close_nowait ==
    /\ caller.pc = "join"
    /\ CloseAndReturn
    /\ UNCHANGED <<is_recording, frames, stream, recording_thread, audio,
                   threads, captured, valVars, storeVars, audioVars, raceVars>>

\* stop_recording(), lines 58-67: recording_thread.join() returns once the
\* thread is no longer alive
join_and_close ==
    /\ caller.pc = "join"
    /\ IF recording_thread = 0 THEN TRUE ELSE ~Alive(recording_thread)
    /\ CloseAndReturn
    /\ UNCHANGED <<is_recording, frames, stream, recording_thread, audio,
                   threads, captured, valVars, storeVars, audioVars, raceVars>>

\* recorder.close(), lines 158-160: stream.close() when a stream was ever
\* opened (a Stream object is truthy, closed or not), then audio.terminate(),
\* which closes every stream still open
close ==
    /\ caller.pc = "idle"
    /\ audio = "ready"
    /\ streams' = [i \in DOMAIN streams |-> "closed"]
    /\ audio' = "terminated"
    /\ caller' = Caller("idle", "close", <<>>, "", FALSE)
    /\ UNCHANGED <<is_recording, frames, stream, recording_thread, threads,
                   captured, valVars, storeVars, audioVars, raceVars>>

\* _record, line 48: while self.is_recording
record_test(t) ==
    /\ t \in DOMAIN threads
    /\ threads[t].pc = "test"
    /\ threads' = [threads EXCEPT ![t].pc = IF is_recording THEN "call" ELSE "done"]
    /\ UNCHANGED <<is_recording, frames, stream, recording_thread, audio,
                   streams, caller, captured,
                   valVars, storeVars, audioVars, raceVars>>

\* _record, line 49: self.stream.read(self.chunk) is called on the stream the
\* attribute holds now; on a closed stream it raises IOError, which ends the
\* thread
record_read(t) ==
    /\ t \in DOMAIN threads
    /\ threads[t].pc = "call"
    /\ threads' = [threads EXCEPT ![t] =
            IF streams[stream] = "closed"
            THEN Thread("raised", <<>>, stream)
            ELSE Thread("inread", <<>>, stream)]
    /\ UNCHANGED <<is_recording, frames, stream, recording_thread, audio,
                   streams, caller, captured,
                   valVars, storeVars, audioVars, raceVars>>

\* _record, line 49: the read returns the next chunk of the device.  A read
\* whose stream was closed while it waited has no defined outcome: it returns
\* a chunk or raises.
record_read_return(t) ==
    /\ t \in DOMAIN threads
    /\ threads[t].pc = "inread"
    /\ \/ /\ captured < MaxChunks
          /\ threads' = [threads EXCEPT ![t].pc = "append",
                                        ![t].data = Chunk(captured + 1)]
          /\ captured' = captured + 1
       \/ /\ streams[threads[t].s] = "closed"
          /\ threads' = [threads EXCEPT ![t].pc = "raised"]
          /\ UNCHANGED captured
    /\ UNCHANGED <<is_recording, frames, stream, recording_thread, audio,
                   streams, caller,
                   valVars, storeVars, audioVars, raceVars>>

\* _record, line 50: self.frames.append(data)
record_append(t) ==
    /\ t \in DOMAIN threads
    /\ threads[t].pc = "append"
    /\ frames' = Append(frames, threads[t].data)
    /\ threads' = [threads EXCEPT ![t].pc = "test", ![t].data = <<>>]
    /\ UNCHANGED <<is_recording, stream, recording_thread, audio,
                   streams, caller, captured,
                   valVars, storeVars, audioVars, raceVars>>

\* One step of recording thread t
record(t) ==
    \/ record_test(t)
    \/ record_read(t)
    \/ record_read_return(t)
    \/ record_append(t)

----------------------------------------------------------------------------
(* The components at rest *)

NotValidated == [outcome |-> "none", exc |-> "", is_valid |-> FALSE, errors |-> <<>>]

ValIdle == entry = <<>> /\ validated = NotValidated

StoreIdle == entries = <<>> /\ modified = 0 /\ now = 0 /\ lastOp = NoOp

AudioIdle == audio_files = <<>> /\ speakers = <<>> /\ audioOp = NoAOp

RaceIdle == importer = <<>> /\ dbLock = 0

----------------------------------------------------------------------------
(* Validation: inputs and specification *)

\* Marks a key that the entry map does not hold
Absent == <<-2>>

\* The entry map with the keys whose choice is not Absent
MkEntry(c) == [k \in {k \in DOMAIN c : c[k] # Absent} |-> c[k]]

IdSamples ==
    { Absent, Null, <<>>,
      <<114, 107, 105, 95, 48, 48, 48, 49>>,          \* rki_0001
      <<114, 107, 105, 95, 48, 48, 49>>,              \* rki_001
      <<114, 107, 105, 95, 48, 48, 48, 49, 10>> }     \* rki_0001 + newline
RakhineSamples ==
    { Absent, Null, <<>>,
      <<4124, 4121, 4154>>,                           \* Myanmar-script word
      <<108, 97, 109>> }                              \* lam (Latin)
RomanizationSamples == { Absent, Null, <<>>, <<108, 97, 109>> }
PosSamples ==
    { Absent, Null, <<>>,
      <<110, 111, 117, 110>>,                         \* noun
      <<78, 111, 117, 110>>,                          \* Noun
      <<105, 110, 118, 97, 108, 105, 100, 95, 112, 111, 115>> } \* invalid_pos
GlossSamples == { Absent, Null, <<>>, <<114, 111, 97, 100>> }   \* road
IpaSamples ==
    { Absent, Null, <<>>,
      <<47, 108, 259, 109, 47>>,                      \* /l(a-breve)m/
      <<91, 108, 259, 109, 93>>,                      \* [l(a-breve)m]
      <<108, 97, 109>>,                               \* lam, no delimiters
      <<47, 108, 50, 109, 47>>,                       \* /l2m/
      <<47>> }                                        \* a lone slash

InitValidate ==
    /\ \E a \in IdSamples, b \in RakhineSamples, c \in RomanizationSamples,
          d \in PosSamples, g \in GlossSamples, p \in IpaSamples :
          entry = MkEntry([id |-> a, rakhine |-> b, romanization |-> c,
                           pos |-> d, gloss_en |-> g, ipa |-> p])
    /\ validated = NotValidated
    /\ StoreIdle /\ AudioIdle /\ RaceIdle
    /\ RecorderIdle

\* validator.validate_entry(entry)
Validate ==
    /\ validated.outcome = "none"
    /\ validated' = validate_entry(entry)
    /\ UNCHANGED <<entry, storeVars, audioVars, raceVars, recVars>>

NextValidate == Validate

SpecValidate == InitValidate /\ [][NextValidate]_vars

\* Transcriptions for utils.validate_ipa: every string up to MaxIpaLen over
\* / [ ] l m and a-breve (U+0103)
IpaAlphabet == {47, 91, 93, 108, 109, 259}

IpaStrings == UNION {[1..n -> IpaAlphabet] : n \in 0..MaxIpaLen}

InitUtils ==
    /\ \E s \in IpaStrings : entry = [ipa |-> s]
    /\ validated = NotValidated
    /\ StoreIdle /\ AudioIdle /\ RaceIdle
    /\ RecorderIdle

\* is_valid, error = validate_ipa(ipa)
ValidateIpa ==
    LET r == validate_ipa(entry["ipa"])
    IN  /\ validated.outcome = "none"
        /\ validated' = [outcome |-> "returned", exc |-> "", is_valid |-> r.ok,
                         errors |-> IF r.msg = "" THEN <<>>
                                    ELSE <<Finding(r.msg, "", entry["ipa"], "", r.char)>>]
        /\ UNCHANGED <<entry, storeVars, audioVars, raceVars, recVars>>

NextUtils == ValidateIpa

SpecUtils == InitUtils /\ [][NextUtils]_vars

\* Entries of data/lexicon.json for main(): FileGood with each of one change
FileGood ==
    [id |-> <<114, 107, 105, 95, 48, 48, 48, 49>>, rakhine |-> <<4124, 4121, 4154>>,
     romanization |-> <<108, 97, 109>>, pos |-> <<110, 111, 117, 110>>,
     gloss_en |-> <<114, 111, 97, 100>>, ipa |-> <<47, 108, 259, 109, 47>>]

\* the text "Missing required field" and "Invalid Myanmar script" as values
TextMissing ==
    <<77, 105, 115, 115, 105, 110, 103, 32, 114, 101, 113, 117, 105, 114, 101, 100, 32, 102, 105, 101, 108, 100>>

TextScript ==
    <<73, 110, 118, 97, 108, 105, 100, 32, 77, 121, 97, 110, 109, 97, 114, 32, 115, 99, 114, 105, 112, 116>>

FileEntrySamples ==
    { FileGood,
      [FileGood EXCEPT !.ipa = <<108, 97, 109>>],          \* ipa lam
      [FileGood EXCEPT !.ipa = TextMissing],
      [FileGood EXCEPT !.pos = TextScript],
      [FileGood EXCEPT !.id = <<114, 107, 105, 95, 48, 48, 49>>],  \* rki_001
      [FileGood EXCEPT !.romanization = <<>>],
      [FileGood EXCEPT !.rakhine = <<108, 97, 109>>],      \* Latin lam
      [FileGood EXCEPT !.id = Null] }

\* json.load of data/lexicon.json: with a 'lexicon' list, or without the key
LexiconFiles ==
    {[metadata |-> <<>>]}
        \cup {[lexicon |-> l] :
                 l \in UNION {[1..n -> FileEntrySamples] : n \in 0..MaxLexicon}}

NotRun == [outcome |-> "none", exc |-> "", code |-> 0, errors |-> <<>>]

InitMain ==
    /\ entry \in LexiconFiles
    /\ validated = NotRun
    /\ StoreIdle /\ AudioIdle /\ RaceIdle
    /\ RecorderIdle

\* python scripts/validation.py
RunMain ==
    /\ validated.outcome = "none"
    /\ validated' = main(entry)
    /\ UNCHANGED <<entry, storeVars, audioVars, raceVars, recVars>>

NextMain == RunMain

SpecMain == InitMain /\ [][NextMain]_vars

----------------------------------------------------------------------------
(* Validation: the rules as the specification words them *)

\* Spec 4.2, script conformance: Myanmar block, Myanmar-extended block,
\* whitespace and the two Myanmar punctuation marks
ConformsToScriptRule(s) ==
    /\ IsStr(s) /\ Len(s) >= 1
    /\ \A i \in 1..Len(s) :
          s[i] \in (4096..4255) \cup (43616..43647) \/ IsSpace(s[i])

\* Spec 4.2, ID format: rki_ followed by at least four decimal digits
IdWellFormed(s) ==
    /\ IsStr(s) /\ Len(s) >= 8
    /\ SubSeq(s, 1, 4) = <<114, 107, 105, 95>>
    /\ \A i \in 5..Len(s) : s[i] \in 48..57

\* Spec 4.2, IPA well-formedness: wrapped in matching delimiters, every body
\* character in the allowed set, a combining mark or allowed punctuation
IpaWellFormed(s) ==
    /\ IsStr(s) /\ Len(s) >= 2
    /\ \/ s[1] = 47 /\ s[Len(s)] = 47
       \/ s[1] = 91 /\ s[Len(s)] = 93
    /\ \A i \in 2..(Len(s) - 1) :
          \/ s[i] \in valid_rakhine_ipa_chars
          \/ s[i] \in 768..879
          \/ s[i] \in {32, 46, 59, 44, 45}

\* Spec 4.2, POS membership: case-insensitively in the closed set
PosInEnum(s) == IsStr(s) /\ Lower(s) \in valid_pos

Present(e, f) == f \in DOMAIN e /\ Truthy(e[f])

AllRequiredPresent(e) == \A i \in DOMAIN required_fields : Present(e, required_fields[i])

\* Critical findings: missing required field, invalid script
IsCritical(f) == f.msg \in {"Missing required field: ", "Invalid Myanmar script: "}

CriticalFindings(errs) == {i \in DOMAIN errs : IsCritical(errs[i])}

MissingCount(errs, f) ==
    Cardinality({i \in DOMAIN errs :
                    errs[i].msg = "Missing required field: " /\ errs[i].field = f})

\* The precondition of C7 as the claim states it
C7_Pre ==
    /\ validated.outcome # "none"
    /\ AllRequiredPresent(entry)
    /\ ConformsToScriptRule(entry["rakhine"])
    /\ PosInEnum(entry["pos"])

\* C7 (as stated): every entry with all required fields present and non-empty,
\* a conforming rakhine and a pos in the enumerated set validates with
\* is_valid = true and no critical finding.
C7_Original ==
    C7_Pre => /\ validated.outcome = "returned"
              /\ validated.is_valid
              /\ CriticalFindings(validated.errors) = {}

\* C7 (amended): such an entry gets no critical finding, and is_valid = true
\* with an empty finding list when also its id has the rki_NNNN form and its
\* ipa is absent, empty or well-formed.
C7_ValidEntryAccepted ==
    C7_Pre =>
        /\ validated.outcome = "returned"
        /\ CriticalFindings(validated.errors) = {}
        /\ (/\ IdWellFormed(entry["id"])
            /\ ("ipa" \in DOMAIN entry /\ Truthy(entry["ipa"])
                    => IpaWellFormed(entry["ipa"])))
           => (validated.is_valid /\ validated.errors = <<>>)

C7_Witness ==
    /\ C7_Pre
    /\ IdWellFormed(entry["id"])
    /\ "ipa" \in DOMAIN entry /\ IpaWellFormed(entry["ipa"])
    /\ entry["pos"] # Lower(entry["pos"])
    /\ validated.is_valid

\* C8: for every entry map, validate reports exactly one MissingField finding
\* for each required field that is absent or empty and none for a required
\* field that is present and non-empty, whatever else fails.
C8_OneMissingFieldPerField ==
    validated.outcome # "none" =>
        \A i \in DOMAIN required_fields :
            MissingCount(validated.errors, required_fields[i])
                = IF Present(entry, required_fields[i]) THEN 0 ELSE 1

\* C9: validate never raises; for every entry map it returns a result.
C9_NeverRaises == validated.outcome # "raised"

\* Spec 4.2: wrapped in a matching pair of delimiters, / with / or [ with ]
WrappedInDelimiters(s) ==
    /\ Len(s) >= 2
    /\ \/ s[1] = 47 /\ s[Len(s)] = 47
       \/ s[1] = 91 /\ s[Len(s)] = 93

\* The IPA findings of the list that name the delimiter requirement
DelimiterFindings(errs) ==
    {i \in DOMAIN errs :
        /\ errs[i].msg = "Invalid IPA: "
        /\ errs[i].detail = "IPA must be enclosed in /slashes/ or [brackets]"}

\* C12: whenever validate returns, a non-empty IPA value that is not wrapped
\* in a matching pair of delimiters has a finding that names the delimiter
\* requirement, and /l(a-breve)m/ has no IPA finding.
C12_IpaDelimitersRequired ==
    (validated.outcome = "returned" /\ "ipa" \in DOMAIN entry
        /\ IsStr(entry["ipa"]) /\ entry["ipa"] # <<>>) =>
        /\ ~WrappedInDelimiters(entry["ipa"])
              => DelimiterFindings(validated.errors) # {}
        /\ entry["ipa"] = <<47, 108, 259, 109, 47>>
              => \A i \in DOMAIN validated.errors :
                    validated.errors[i].msg # "Invalid IPA: "

\* A transcription body of the letters l, m and a-breve that has a breve vowel
BreveBody(b) ==
    /\ \A i \in DOMAIN b : b[i] \in {108, 109, 259}
    /\ \E i \in DOMAIN b : b[i] = 259

\* C13: utils.validate_ipa returns (true, no error) for a delimited
\* transcription with a breve vowel, such as /l(a-breve)m/ and
\* [l(a-breve)m], and (false, a message with 'enclosed') for the same
\* transcription without delimiters.
C13_UtilsValidateIpaBreve ==
    validated.outcome = "returned" =>
        LET ipa == entry["ipa"]
        IN  /\ (WrappedInDelimiters(ipa) /\ BreveBody(SubSeq(ipa, 2, Len(ipa) - 1)))
                  => validated.is_valid /\ validated.errors = <<>>
            /\ BreveBody(ipa)
                  => /\ ~validated.is_valid
                     /\ Len(validated.errors) = 1
                     /\ validated.errors[1].msg
                            = "IPA must be enclosed in /slashes/ or [brackets]"

\* C19: the validation run exits non-zero if and only if at least one finding
\* is a missing-required-field or an invalid-script finding; a lexicon whose
\* only findings are IPA or other advisory findings never fails the run,
\* whatever text the offending field values contain.
C19_RunFailsIffCritical ==
    validated.outcome = "exited" =>
        (validated.code # 0 <=> CriticalFindings(validated.errors) # {})

----------------------------------------------------------------------------
(* Lexicon Store: inputs and specification *)

rki_0001 == <<114, 107, 105, 95, 48, 48, 48, 49>>
rki_0002 == <<114, 107, 105, 95, 48, 48, 48, 50>>
nonexistent == <<110, 111, 110, 101, 120, 105, 115, 116, 101, 110, 116>>
road == <<114, 111, 97, 100>>
water == <<119, 97, 116, 101, 114>>
roadway == <<114, 111, 97, 100, 119, 97, 121>>

\* The entry of the tests' sample_entry fixture: rki_0001, "road, path"
EntryRoad ==
    LexiconEntry(rki_0001, <<4124, 4121, 4154>>, <<108, 97, 109>>,
                 <<110, 111, 117, 110>>,
                 <<Sense(<<114, 111, 97, 100, 44, 32, 112, 97, 116, 104>>, Null, Null)>>,
                 <<47, 108, 259, 109, 47>>,
                 <<>>,
                 <<Etymology(<<80, 97, 108, 105>>, Null, <<>>)>>)

\* Another entry that claims the id rki_0001; two of its three senses have no
\* English gloss
EntryRoadRival ==
    LexiconEntry(rki_0001, <<4123, 4145>>, <<108, 97, 110>>,
                 <<118, 101, 114, 98>>,
                 <<Sense(<<119, 97, 121>>, Null, Null),
                   Sense(<<>>, Null, Null),
                   Sense(Null, Null, <<83, 105, 116, 116, 119, 101>>)>>,
                 Null, <<roadway, water>>, <<>>)

\* rki_0002, "water", complete but for its part of speech, invalid_pos
EntryWater ==
    LexiconEntry(rki_0002, <<4123, 4145>>, <<114, 101>>,
                 <<105, 110, 118, 97, 108, 105, 100, 95, 112, 111, 115>>,
                 <<Sense(water, Null, Null)>>,
                 Null, <<>>, <<>>)

\* An entry built without senses and with an empty romanization, also under
\* rki_0002
EntryBare ==
    LexiconEntry(rki_0002, <<4123, 4145>>, <<>>, <<110, 111, 117, 110>>,
                 <<>>, Null, <<>>, <<>>)

EntrySamples == {EntryRoad, EntryRoadRival, EntryWater, EntryBare}

IdArgSamples == {rki_0001, rki_0002, nonexistent}

QuerySamples == {road, water, nonexistent,
                 <<76, 65>>,                 \* LA
                 <<4123, 4145>>}             \* the rakhine of EntryWater

\* created/modified (clock readings here, ISO strings in the code) are not
\* searched
FieldSamples == {"rakhine", "romanization", "gloss_en", "synonyms", "senses"}

InitStore ==
    /\ entries = <<>>
    /\ modified = 0
    /\ now = 0
    /\ lastOp = NoOp
    /\ ValIdle /\ AudioIdle /\ RaceIdle
    /\ RecorderIdle

NextStore ==
    \/ \E e \in EntrySamples : add_entry(e)
    \/ \E id \in IdArgSamples : remove_entry(id)
    \/ \E q \in QuerySamples, f \in FieldSamples, x \in BOOLEAN : search(q, f, x)
    \/ validate
    \/ Tick

SpecStore == InitStore /\ [][NextStore]_vars

\* Entries of a lexicon file as a collaborator writes them: the canonical
\* form of EntryRoad, the four required keys alone, a key the schema does not
\* name (the gloss_en the Validation Engine requires), and no pos
RawMinimal ==
    [id |-> rki_0002, rakhine |-> <<4123, 4145>>, romanization |-> <<114, 101>>,
     pos |-> <<110, 111, 117, 110>>]

RawExtra ==
    [id |-> rki_0002, rakhine |-> <<4123, 4145>>, romanization |-> <<114, 101>>,
     pos |-> <<110, 111, 117, 110>>, gloss_en |-> water]

RawNoPos ==
    [id |-> rki_0002, rakhine |-> <<4123, 4145>>, romanization |-> <<114, 101>>]

RawEntrySamples == {to_dict(EntryRoad), RawMinimal, RawExtra, RawNoPos}

RawFileSamples ==
    {[metadata |-> <<>>]}
        \cup {[metadata |-> <<>>, lexicon |-> l] :
                 l \in UNION {[1..n -> RawEntrySamples] : n \in 0..MaxLexicon}}

InitPersist ==
    /\ entry \in RawFileSamples
    /\ validated = NotValidated
    /\ StoreIdle /\ AudioIdle /\ RaceIdle
    /\ RecorderIdle

NextPersist ==
    \/ \E e \in EntrySamples : add_entry(e)
    \/ save
    \/ load
    \/ GetStatistics
    \/ Tick

SpecPersist == InitPersist /\ [][NextPersist]_vars

----------------------------------------------------------------------------
(* Lexicon Store: claims *)

\* A step that is the operation op just having been carried out
Did(op) == lastOp' # lastOp /\ lastOp'.op = op

\* C2: add(entry) fails with ValueError whenever entry.id is already a key and
\* then leaves the store (entries, their order, the modified stamp) as it was;
\* otherwise the entry is stored under its id, the count grows by one and
\* every other entry stays.
C2_AddRejectsDuplicate ==
    [][Did("add") =>
        LET e == lastOp'.entry[1]
        IN  IF e.id \in Keys(entries)
            THEN /\ lastOp'.err = "ValueError"
                 /\ entries' = entries
                 /\ modified' = modified
            ELSE /\ lastOp'.err = ""
                 /\ Keys(entries') = Keys(entries) \cup {e.id}
                 /\ Get(entries', e.id) = e
                 /\ Len(entries') = Len(entries) + 1
                 /\ \A id \in Keys(entries) : Get(entries', id) = Get(entries, id)]_vars

\* A duplicate add was refused while a different entry holds the id
C2_Witness ==
    /\ lastOp.op = "add" /\ lastOp.err = "ValueError"
    /\ lastOp.id \in Keys(entries)
    /\ Get(entries, lastOp.id) # lastOp.entry[1]
    /\ Len(entries) = 2

\* C3: remove(id) fails with KeyError when id is absent and then leaves the
\* store as it was; when present it removes exactly that entry and leaves
\* every other entry in place, so that a successful add(e) followed by
\* remove(e.id) gives back the store as it was before the add (add had put e
\* last; remove takes exactly e away).
C3_RemoveExactlyOne ==
    [][Did("remove") =>
        LET id == lastOp'.id
        IN  IF id \notin Keys(entries)
            THEN /\ lastOp'.err = "KeyError"
                 /\ entries' = entries
                 /\ modified' = modified
            ELSE /\ lastOp'.err = ""
                 /\ Keys(entries') = Keys(entries) \ {id}
                 /\ Len(entries') = Len(entries) - 1
                 /\ \A k \in Keys(entries') : Get(entries', k) = Get(entries, k)
                 /\ (lastOp.op = "add" /\ lastOp.err = "" /\ lastOp.id = id)
                        => /\ entries[Len(entries)] = lastOp.entry[1]
                           /\ entries' = SubSeq(entries, 1, Len(entries) - 1)]_vars

\* An entry was removed from a store that held another one too
C3_Witness ==
    /\ lastOp.op = "remove" /\ lastOp.err = ""
    /\ lastOp.id \notin Keys(entries)
    /\ Len(entries) = 1

\* The stored entries whose English gloss (a sense's gloss_en) contains q
EntriesGlossed(es, q) ==
    {es[i] : i \in {j \in DOMAIN es :
        \E k \in DOMAIN es[j].senses :
            Contains(Lower(es[j].senses[k].gloss_en), Lower(q))}}

\* C10: search(query, field="gloss_en") returns exactly the stored entries
\* whose English gloss contains the query.
C10_SearchByGloss ==
    (lastOp.op = "search" /\ lastOp.field = "gloss_en") =>
        /\ lastOp.err = ""
        /\ {lastOp.result[i] : i \in DOMAIN lastOp.result}
               = EntriesGlossed(entries, lastOp.query)

\* The findings of the list that are about entry id, field and index
FindingsFor(findings, id, field, index) ==
    {k \in DOMAIN findings :
        /\ findings[k].entry_id = id
        /\ findings[k].field = field
        /\ findings[k].index = index}

\* C17: an entry with zero senses is added without error, and validateAll
\* then reports one 'no senses' finding under that entry's id; for an entry
\* with senses, each sense lacking gloss_en has its own finding carrying the
\* sense's index (from 0), and a sense with a gloss has none.
C17_ZeroSensesFlaggedNotRejected ==
    [][/\ (Did("add") /\ lastOp'.entry[1].senses = <<>>
             /\ lastOp'.id \notin Keys(entries))
          => /\ lastOp'.err = ""
             /\ Get(entries', lastOp'.id) = lastOp'.entry[1]
       /\ lastOp'.op = "validate" =>
            \A n \in DOMAIN entries' :
                LET e == entries'[n]
                    found(field, index) ==
                        Cardinality(FindingsFor(lastOp'.result, e.id, field, index))
                IN  IF e.senses = <<>>
                    THEN /\ found("senses", -1) = 1
                         /\ lastOp'.result[CHOOSE k \in
                                FindingsFor(lastOp'.result, e.id, "senses", -1) : TRUE]
                                .message = "Entry has no senses"
                    ELSE /\ found("senses", -1) = 0
                         /\ \A i \in DOMAIN e.senses :
                               found("sense_gloss_en", i - 1) =
                                   IF e.senses[i].gloss_en \in {Null, <<>>}
                                   THEN 1 ELSE 0]_vars

\* validateAll has run on a store that holds an entry added without senses
\* and an entry whose second and third senses lack a gloss
C17_Witness ==
    /\ lastOp.op = "validate"
    /\ EntryBare.id \in Keys(entries) /\ Get(entries, EntryBare.id) = EntryBare
    /\ EntryRoadRival.id \in Keys(entries)
    /\ Get(entries, EntryRoadRival.id) = EntryRoadRival
    /\ FindingsFor(lastOp.result, EntryBare.id, "senses", -1) # {}
    /\ FindingsFor(lastOp.result, EntryRoadRival.id, "sense_gloss_en", 1) # {}
    /\ FindingsFor(lastOp.result, EntryRoadRival.id, "sense_gloss_en", 2) # {}

\* The stored entry as the raw record the Validation Engine validates: its
\* id, rakhine, romanization, pos and ipa, and the English gloss of its first
\* sense
EngineRecord(e) ==
    LET base == [id |-> e.id, rakhine |-> e.rakhine,
                 romanization |-> e.romanization, pos |-> e.pos, ipa |-> e.ipa]
    IN  IF e.senses = <<>> THEN base
        ELSE [k \in DOMAIN base \cup {"gloss_en"} |->
                 IF k = "gloss_en" THEN e.senses[1].gloss_en ELSE base[k]]

\* The rules the Validation Engine finds broken: <<rule, field>>
EngineRulesBroken(e) ==
    LET errs == validate_entry(EngineRecord(e)).errors
    IN  {<<errs[k].msg, errs[k].field>> : k \in DOMAIN errs}

\* The same for the findings validateAll reports under the entry's id; a
\* missing gloss is reported under "senses" or under the sense's index
StoreRulesBroken(findings, e) ==
    {<<"Missing required field: ",
       IF findings[k].field = "senses"
          \/ (findings[k].field = "sense_gloss_en" /\ findings[k].index = 0)
       THEN "gloss_en" ELSE findings[k].field>> :
        k \in {j \in DOMAIN findings :
                 /\ findings[j].entry_id = e.id
                 /\ ~(findings[j].field = "sense_gloss_en" /\ findings[j].index > 0)}}

\* C18: validateAll reports for every stored entry the findings the
\* Validation Engine's validate reports for it (required fields, ID format,
\* script, IPA, POS); an entry for which the engine has a finding never
\* passes validateAll without one.
C18_ValidateAllRunsEngine ==
    lastOp.op = "validate" =>
        \A n \in DOMAIN entries :
            /\ StoreRulesBroken(lastOp.result, entries[n])
                   = EngineRulesBroken(entries[n])
            /\ EngineRulesBroken(entries[n]) # {}
                   => \E k \in DOMAIN lastOp.result :
                          lastOp.result[k].entry_id = entries[n].id

\* The match of search as specified, for one entry: containment without
\* regard to case, or equality when exact, in the string field or in at least
\* one element of the sequence field
SpecifiedMatch(e, query, field, exact) ==
    LET hit(v) == IF exact THEN query = v ELSE Contains(Lower(v), Lower(query))
    IN  IF field \in StrFields
        THEN IsStr(e[field]) /\ hit(e[field])
        ELSE \E i \in DOMAIN e[field] : hit(e[field][i])

\* C11: search over a named string or sequence field returns every stored
\* entry for which the match holds, each at most once, and no other entry;
\* with exact = true the match is equality with the string field or with at
\* least one element of the sequence field.
C11_SearchMatchesExactly ==
    (lastOp.op = "search" /\ lastOp.field \in StrFields \cup StrListFields) =>
        /\ lastOp.err = ""
        /\ \A i, j \in DOMAIN lastOp.result :
               lastOp.result[i] = lastOp.result[j] => i = j
        /\ {lastOp.result[i] : i \in DOMAIN lastOp.result}
               = {entries[i] : i \in {j \in DOMAIN entries :
                    SpecifiedMatch(entries[j], lastOp.query, lastOp.field,
                                   lastOp.exact)}}

\* C23: a raw entry record that carries extra fields not named in the schema
\* is accepted when converted to an entry, and converting the entry back to
\* the canonical key-value representation yields those extra fields with
\* their values unchanged.
C23_ExtraFieldsRoundTrip ==
    [][Did("load") =>
         LET data == IF "lexicon" \in DOMAIN entry THEN entry["lexicon"] ELSE <<>>
             wellFormed(d) ==
                 /\ {"id", "rakhine", "romanization", "pos"} \subseteq DOMAIN d
                 /\ \A i \in DOMAIN data : data[i]["id"] = d["id"] => data[i] = d
         IN  (\A i \in DOMAIN data : wellFormed(data[i])) =>
                /\ lastOp'.err = ""
                /\ \A i \in DOMAIN data :
                      LET back == to_dict(Get(lastOp'.result, data[i]["id"]))
                      IN  \A k \in DOMAIN data[i] \ EntryFieldNames :
                             k \in DOMAIN back /\ back[k] = data[i][k]
      ]_vars

\* C24: saving a store to the canonical representation and loading it into a
\* new empty store yields a store with exactly the same set of entry ids,
\* each entry equal field by field to the saved one (senses in the same
\* order, etymology, timestamps).
C24_SaveLoadRoundTrip ==
    [][(Did("load") /\ lastOp.op = "save") =>
         /\ lastOp'.err = ""
         /\ Keys(lastOp'.result) = Keys(entries)
         /\ Len(lastOp'.result) = Len(entries)
         /\ \A id \in Keys(entries) :
               \A k \in EntryFieldNames :
                  Get(lastOp'.result, id)[k] = Get(entries, id)[k]
      ]_vars

\* A store of two entries, one with an etymology and one without, saved and
\* then loaded at a later clock time
C24_Witness ==
    /\ lastOp.op = "load" /\ lastOp.err = ""
    /\ Len(entries) = 2 /\ lastOp.result = entries
    /\ \E i \in DOMAIN entries : Len(entries[i].etymology) = 1
    /\ \E i \in DOMAIN entries : Len(entries[i].etymology) = 0
    /\ now > 0
    /\ entry["lexicon"] = [i \in DOMAIN entries |-> to_dict(entries[i])]

\* The sum of a histogram's counts
HistogramTotal(h) == Cardinality(UNION {{<<k, n>> : n \in 1..h[k]} : k \in DOMAIN h})

\* C25: statistics() on an empty store returns without error with total
\* entries 0, total senses 0, average senses per entry 0, empty
\* part-of-speech and dialect histograms and zero IPA, example and etymology
\* counts; in every store state total_senses is the sum of the stored
\* entries' sense counts and the part-of-speech histogram sums to
\* total_entries.
C25_StatisticsTotals ==
    lastOp.op = "statistics" =>
        LET stats == lastOp.result
        IN  /\ lastOp.err = ""
            /\ stats.total_entries = Len(entries)
            /\ stats.total_senses
                  = Cardinality(UNION {{<<i, j>> : j \in DOMAIN entries[i].senses} :
                                          i \in DOMAIN entries})
            /\ HistogramTotal(stats.pos_distribution) = stats.total_entries
            /\ entries = <<>> =>
                  /\ stats.total_entries = 0 /\ stats.total_senses = 0
                  /\ stats.average_senses_per_entry.num = 0
                  /\ DOMAIN stats.pos_distribution = {}
                  /\ DOMAIN stats.dialect_distribution = {}
                  /\ stats.entries_with_ipa = 0
                  /\ stats.entries_with_examples = 0
                  /\ stats.entries_with_etymology = 0

\* Statistics of a store that holds an entry with three senses and another
\* entry
C25_Witness ==
    /\ lastOp.op = "statistics"
    /\ Len(entries) = 2
    /\ \E i \in DOMAIN entries : Len(entries[i].senses) = 3
    /\ lastOp.result.total_senses = 4

----------------------------------------------------------------------------
(* Audio Link Store: inputs and specification *)

spk01 == <<115, 112, 107, 48, 49>>
spk02 == <<115, 112, 107, 48, 50>>
sittwe == <<115, 105, 116, 116, 119, 101>>
mrauku == <<109, 114, 97, 117, 107, 117>>
rki_0009 == <<114, 107, 105, 95, 48, 48, 48, 57>>

AudioFile(name, content, kind) == [name |-> name, content |-> content, kind |-> kind]

\* rki_0001_spk01.wav
FileA ==
    AudioFile(<<114, 107, 105, 95, 48, 48, 48, 49, 95, 115, 112, 107, 48, 49,
                46, 119, 97, 118>>, 1, "audio")

\* road_spk02_sittwe_f.wav: a byte-identical copy of FileA under another name
FileACopy ==
    AudioFile(<<114, 111, 97, 100, 95, 115, 112, 107, 48, 50, 95, 115, 105, 116,
                116, 119, 101, 95, 102, 46, 119, 97, 118>>, 1, "audio")

\* rki_0002_spk02.wav
FileB ==
    AudioFile(<<114, 107, 105, 95, 48, 48, 48, 50, 95, 115, 112, 107, 48, 50,
                46, 119, 97, 118>>, 2, "audio")

\* broken_spk01.wav: cannot be opened
FileBroken ==
    AudioFile(<<98, 114, 111, 107, 101, 110, 95, 115, 112, 107, 48, 49,
                46, 119, 97, 118>>, 0, "unreadable")

\* notes.wav: readable, but no audio container
FileNotes == AudioFile(<<110, 111, 116, 101, 115, 46, 119, 97, 118>>, 0, "notaudio")

\* c<k>.wav: one more audio file for every further content
FileC(k) == AudioFile(<<99, 48 + k, 46, 119, 97, 118>>, k, "audio")

Files ==
    {FileA, FileACopy, FileB, FileBroken, FileNotes}
        \cup {FileC(k) : k \in 3..NumContents}

\* Two metadata maps that name the same speaker with different attributes
MetaRoad ==
    [entry_id |-> rki_0001, speaker_id |-> spk01, dialect |-> sittwe,
     speaker_gender |-> <<102>>]

MetaWater == [entry_id |-> rki_0002, speaker_id |-> spk01, dialect |-> mrauku]

MetaSamples == {<<>>, MetaRoad, MetaWater}

LinkEntrySamples == {rki_0009}

\* The listings a directory can give: up to MaxDirFiles different files, in
\* any order
DirListings ==
    UNION {{d \in [1..n -> Files] : \A i, j \in 1..n : i # j => d[i] # d[j]}
              : n \in 0..MaxDirFiles}

\* metadata_map: none, an explicit entry for FileA's name that gives
\* entry_id and dialect only, or one for FileACopy's name that gives a
\* speaker_id and an empty gender
MetaMapSamples ==
    { <<>>,
      (FileA.name :> [entry_id |-> rki_0002, dialect |-> mrauku]),
      (FileACopy.name :> [speaker_id |-> spk01, gender |-> <<>>]) }

InitAudio ==
    /\ audio_files = <<>>
    /\ speakers = <<>>
    /\ audioOp = NoAOp
    /\ ValIdle /\ StoreIdle /\ RaceIdle
    /\ RecorderIdle

NextAudio ==
    \/ \E f \in Files, m \in MetaSamples : ImportFile(f, m)
    \/ \E id \in 1..NumContents, e \in LinkEntrySamples : LinkToEntry(id, e)

SpecAudio == InitAudio /\ [][NextAudio]_vars

\* The tables a batch import can find: empty, or filled by earlier imports
BatchStartSamples ==
    LET none == Outcome(<<>>, <<>>, "", 0, "")
        a == import_audio_file(<<>>, <<>>, FileA, MetaRoad)
        b == import_audio_file(<<>>, <<>>, FileB, <<>>)
        ab == import_audio_file(a.af, a.sp, FileB, MetaWater)
    IN  {none, a, b, ab}

InitBatch ==
    /\ \E db \in BatchStartSamples : audio_files = db.af /\ speakers = db.sp
    /\ audioOp = NoAOp
    /\ ValIdle /\ StoreIdle /\ RaceIdle
    /\ RecorderIdle

\* One batch import of a directory
NextBatch ==
    \/ /\ audioOp.op = "none"
       /\ \E d \in DirListings, mm \in MetaMapSamples : BatchImportDirectory(d, mm)

SpecBatch == InitBatch /\ [][NextBatch]_vars

\* Linking, with a Lexicon Store that holds the entry linked to or does not
LinkStoreSamples == {<<>>, <<EntryRoad>>}

LinkTargetSamples == {rki_0001, rki_0009}

InitLink ==
    /\ \E db \in BatchStartSamples : audio_files = db.af /\ speakers = db.sp
    /\ audioOp = NoAOp
    /\ entries \in LinkStoreSamples
    /\ modified = 0 /\ now = 0 /\ lastOp = NoOp
    /\ ValIdle /\ RaceIdle
    /\ RecorderIdle

NextLink ==
    \E id \in 1..(NumContents + 1), e \in LinkTargetSamples : LinkToEntry(id, e)

SpecLink == InitLink /\ [][NextLink]_vars

\* Concurrent importers: two callers, each importing any of the audio files
\* and one file that cannot be opened
Importers == {1, 2}

RaceFiles == {f \in Files : f.kind = "audio"} \cup {FileBroken}

RaceMetaSamples == {MetaRoad, [speaker_id |-> spk02]}

InitRace ==
    /\ audio_files = <<>>
    /\ speakers = <<>>
    /\ audioOp = NoAOp
    /\ importer = [i \in Importers |-> NoCall]
    /\ dbLock = 0
    /\ ValIdle /\ StoreIdle
    /\ RecorderIdle

NextRace ==
    \/ \E i \in Importers, f \in RaceFiles, m \in RaceMetaSamples : BeginImport(i, f, m)
    \/ \E i \in Importers : LookupHash(i)
    \/ \E i \in Importers : InsertRow(i)
    \/ \E i \in Importers : LockTimeout(i)
    \/ \E i \in Importers : UpsertSpeakerRow(i)
    \/ \E i \in Importers : Commit(i)
    \/ \E i \in Importers : DiscardConnection(i)

SpecRace == InitRace /\ [][NextRace]_vars

\* Reads beside one importer
ReadEntrySamples == {rki_0001}

ReadDialectSamples == {sittwe}

\* The table lexicon: missing from the database, or there and empty
LexiconTableSamples == {Null, <<>>}

NextRead ==
    \/ \E f \in RaceFiles, m \in RaceMetaSamples : BeginImport(1, f, m)
    \/ LookupHash(1)
    \/ InsertRow(1)
    \/ UpsertSpeakerRow(1)
    \/ Commit(1)
    \/ \E e \in ReadEntrySamples : QueryByEntry(e)
    \/ \E dl \in ReadDialectSamples, l \in LexiconTableSamples : QueryByDialect(dl, l)
    \/ BeginStats
    \/ NextStatSelect

SpecRead == InitRace /\ [][NextRead]_vars

\* The lexicon file of test_create_audio_index, whole or in part
IndexEntry(id) == [id |-> id, rakhine |-> <<4124, 4121, 4154>>, gloss_en |-> road]

IndexLexiconSamples ==
    { [metadata |-> <<>>],
      [lexicon |-> <<IndexEntry(rki_0001)>>],
      [lexicon |-> <<IndexEntry(rki_0002)>>],
      [lexicon |-> <<IndexEntry(rki_0001), IndexEntry(rki_0002)>>] }

InitIndex ==
    /\ entry \in IndexLexiconSamples
    /\ validated = NotValidated
    /\ StoreIdle /\ AudioIdle /\ RaceIdle
    /\ RecorderIdle

NextIndex == \E d \in DirListings : CreateAudioIndex(d)

SpecIndex == InitIndex /\ [][NextIndex]_vars

\* One importer whose transaction can fail after the audio insert, and
\* links beside it
TxnMetaSamples ==
    RaceMetaSamples \cup {[speaker_id |-> spk02, other_languages |-> NotJson]}

NextTxn ==
    \/ \E f \in RaceFiles, m \in TxnMetaSamples : BeginImport(1, f, m)
    \/ LookupHash(1)
    \/ InsertRow(1)
    \/ UpsertSpeakerRow(1)
    \/ Commit(1)
    \/ DiscardConnection(1)
    \/ \E id \in 1..NumContents, e \in LinkEntrySamples :
          /\ dbLock = 0                  \* the UPDATE takes the write lock
          /\ LinkToEntry(id, e)

SpecTxn == InitRace /\ [][NextTxn]_vars

----------------------------------------------------------------------------
(* Audio recorder: specification *)

InitRecorder == RecorderIdle /\ ValIdle /\ StoreIdle /\ AudioIdle /\ RaceIdle

NextRecorder ==
    \/ start_recording
    \/ stop_recording
    \/ join_and_close
    \/ close
    \/ \E t \in 1..MaxStreams : record_test(t)
    \/ \E t \in 1..MaxStreams : record_read(t)
    \/ \E t \in 1..MaxStreams : record_read_return(t)
    \/ \E t \in 1..MaxStreams : record_append(t)

SpecRecorder == InitRecorder /\ [][NextRecorder]_vars

\* The scheduler lets a recording thread that can take a step take one
SpecRecorderFair ==
    SpecRecorder /\ \A t \in 1..MaxStreams : WF_vars(record(t))

----------------------------------------------------------------------------
(* Audio Link Store: claims *)

\* A step that is the Audio Link Store call op just having been carried out
DidAudio(op) == audioOp' # audioOp /\ audioOp'.op = op

\* No two rows of audio_files share a file_hash
NoTwoRowsShareHash(af) ==
    \A i, j \in DOMAIN af : af[i].file_hash = af[j].file_hash => i = j

\* C1: after any sequence of importFile and linkToEntry no two audio records
\* share a content hash, and importFile of a file whose bytes equal an
\* already imported file's returns that record's id and leaves the audio
\* records and the speaker rows as they were, whatever metadata it is given.
C1_IdempotentIngestion ==
    [][/\ NoTwoRowsShareHash(audio_files')
       /\ (DidAudio("import") /\ audioOp'.files[1].kind = "audio") =>
            LET h == calculate_file_hash(audioOp'.files[1])
            IN  RowsWithHash(audio_files, h) # {} =>
                    /\ audioOp'.err = ""
                    /\ \E i \in RowsWithHash(audio_files, h) :
                            audioOp'.ret = audio_files[i].id
                    /\ audio_files' = audio_files
                    /\ speakers' = speakers]_vars

\* A copy of an imported file, under another name and with metadata naming
\* another entry and other speaker attributes, has just been imported again
C1_Witness ==
    /\ audioOp.op = "import" /\ audioOp.err = ""
    /\ \E i \in DOMAIN audio_files :
          /\ audio_files[i].file_hash = calculate_file_hash(audioOp.files[1])
          /\ audio_files[i].id = audioOp.ret
          /\ audio_files[i].filename # audioOp.files[1].name
          /\ Truthy(MGet(audioOp.metadata, "entry_id"))
          /\ audio_files[i].entry_id # audioOp.metadata["entry_id"]
          /\ Truthy(MGet(audioOp.metadata, "speaker_id"))
          /\ audioOp.metadata["speaker_id"] \in DOMAIN speakers
          /\ speakers[audioOp.metadata["speaker_id"]].dialect
                 # audioOp.metadata["dialect"]
    /\ Len(audio_files) = 2

\* C6: batchImportDirectory attempts every file found: the report holds one
\* outcome per file, in order; a file that cannot be imported gets
\* success = false with its error and the files after it are still
\* processed; a file that imports gets success = true and the id of its
\* record; so the successes number the files that import without error.
C6_BatchContinuesPastErrors ==
    audioOp.op = "batch" =>
        LET files == audioOp.files
            results == audioOp.results
        IN  /\ Len(results) = Len(files)
            /\ \A i \in DOMAIN files :
                  /\ results[i].filename = files[i].name
                  /\ results[i].success = (files[i].kind = "audio")
                  /\ ~results[i].success => results[i].error # ""
                  /\ results[i].success =>
                        \E k \in DOMAIN audio_files :
                            /\ audio_files[k].id = results[i].audio_file_id
                            /\ audio_files[k].file_hash = calculate_file_hash(files[i])
            /\ Cardinality({i \in DOMAIN results : results[i].success})
                   = Cardinality({i \in DOMAIN files : files[i].kind = "audio"})

\* An unreadable file came first and the valid file after it was imported:
\* attempted 2, imported 1
C6_Witness ==
    /\ audioOp.op = "batch"
    /\ Len(audioOp.files) = 2
    /\ audioOp.files[1].kind = "unreadable"
    /\ audioOp.files[2].kind = "audio"
    /\ ~audioOp.results[1].success
    /\ audioOp.results[2].success
    /\ Cardinality({i \in DOMAIN audioOp.results : audioOp.results[i].success}) = 1

\* The value the claim gives a field of file f: the explicit one when the
\* metadata for f holds the key, else the n-th part of the name, else unset
ExplicitlyGiven(mm, f, key) == f.name \in DOMAIN mm /\ key \in DOMAIN mm[f.name]

ClaimedValue(mm, f, key, n) ==
    LET parts == Split(Stem(f.name), 95)
    IN  IF ExplicitlyGiven(mm, f, key) THEN mm[f.name][key]
        ELSE IF Len(parts) >= n THEN parts[n]
        ELSE Null

\* The files of a finished batch that got a record of their own: imported,
\* to an id no earlier record and no earlier file of the batch has
CreatedRecord(af, op, i) ==
    /\ op.results[i].success
    /\ \A k \in DOMAIN af : af[k].id # op.results[i].audio_file_id
    /\ \A j \in 1..(i - 1) :
          op.results[j].success =>
              op.results[j].audio_file_id # op.results[i].audio_file_id

\* C20: in batchImportDirectory, for each of entry_id, speaker_id, dialect
\* and gender independently, the record of a file holds the value given
\* explicitly in the metadata for that file when there is one, the value at
\* the field's position of the file name only when no explicit value is
\* given, and nothing when neither exists.
C20_ExplicitMetadataWins ==
    [][DidAudio("batch") =>
         \A i \in DOMAIN audioOp'.files :
            CreatedRecord(audio_files, audioOp', i) =>
               LET f == audioOp'.files[i]
                   mm == audioOp'.metadata
                   id == audioOp'.results[i].audio_file_id
                   row == audio_files'[CHOOSE k \in DOMAIN audio_files' :
                                          audio_files'[k].id = id]
                   relinked == \E j \in (i + 1)..Len(audioOp'.files) :
                                  /\ audioOp'.results[j].success
                                  /\ audioOp'.results[j].audio_file_id = id
               IN  /\ row.speaker_id = ClaimedValue(mm, f, "speaker_id", 2)
                   /\ row.dialect = ClaimedValue(mm, f, "dialect", 3)
                   /\ row.gender = ClaimedValue(mm, f, "gender", 4)
                   /\ ~relinked => row.entry_id = ClaimedValue(mm, f, "entry_id", 1)
      ]_vars

\* C15: an import of a new file that names a speaker leaves exactly one
\* speakers row for that speaker_id, holding exactly what this import
\* supplied (omitted attributes at their defaults, nothing kept from earlier
\* imports) and leaves every other speaker's row alone; no other step touches
\* the speakers table.  So each row is that of the most recent new import
\* that referenced the speaker.
C15_SpeakerLastWriteWins ==
    [][IF DidAudio("import") /\ audioOp'.err = "" /\ audioOp'.printed = ""
       THEN LET m == audioOp'.metadata
            IN  IF Truthy(MGet(m, "speaker_id"))
                THEN /\ DOMAIN speakers' = DOMAIN speakers \cup {m["speaker_id"]}
                     /\ speakers'[m["speaker_id"]] =
                           [speaker_id |-> m["speaker_id"],
                            gender |-> MGet(m, "speaker_gender"),
                            age |-> MGet(m, "speaker_age"),
                            dialect |-> MGet(m, "dialect"),
                            native_speaker |-> MGetDefault(m, "native_speaker", TRUE),
                            location |-> MGet(m, "recording_location"),
                            other_languages |-> MGetDefault(m, "other_languages", <<91, 93>>),
                            notes |-> MGetDefault(m, "speaker_notes", <<>>)]
                     /\ \A k \in DOMAIN speakers \ {m["speaker_id"]} :
                           speakers'[k] = speakers[k]
                ELSE speakers' = speakers
       ELSE speakers' = speakers]_vars

\* A second new file was imported for a speaker already stored with a gender
\* and another dialect: the row now has the new dialect and no gender
C15_Witness ==
    /\ audioOp.op = "import" /\ audioOp.err = "" /\ audioOp.printed = ""
    /\ audioOp.metadata = MetaWater
    /\ Len(audio_files) = 2
    /\ audio_files[1].speaker_id = spk01 /\ audio_files[1].dialect = sittwe
    /\ speakers[spk01].dialect = mrauku
    /\ speakers[spk01].gender = Null

\* An audio record with every field set as an import of file f with
\* metadata m supplies it
AsSupplied(r, f, m) ==
    /\ f.kind = "audio"
    /\ r.file_hash = calculate_file_hash(f)
    /\ r.filename = f.name /\ r.filepath = f.name
    /\ r.facts = ContainerFacts(f)
    /\ r.entry_id = MGet(m, "entry_id")
    /\ r.speaker_id = MGet(m, "speaker_id")
    /\ r.dialect = MGet(m, "dialect")
    /\ r.gender = MGet(m, "gender")
    /\ r.recording_date = MGet(m, "recording_date")
    /\ r.quality_score = MGetDefault(m, "quality_score", <<49, 46, 48>>)

\* The record is whole: some import supplied all of it, and if it is the one
\* the importer's finished call created, that call did
WholeRecord(r) ==
    /\ \E f \in RaceFiles, m \in RaceMetaSamples : AsSupplied(r, f, m)
    /\ \A i \in DOMAIN importer :
          (importer[i].pc = "done" /\ importer[i].printed = ""
              /\ importer[i].ret = r.id)
            => AsSupplied(r, importer[i].f, importer[i].m)

\* C16: no read running beside an importFile observes a partially inserted
\* record: every record a query returns is a committed record with all its
\* fields as the import supplied them, every figure of the statistics is
\* computed from the committed records, and every committed record is whole.
C16_ReadsSeeWholeRecords ==
    [][/\ \A i \in DOMAIN audio_files : WholeRecord(audio_files[i])
       /\ (audioOp' # audioOp) =>
            IF audioOp'.op = "stats"
            THEN audioOp'.results[audioOp'.ret]
                    = StatSelect(audioOp'.ret, audio_files)
            ELSE /\ audioOp'.op \in {"query_entry", "query_dialect"}
                 /\ \A k \in DOMAIN audioOp'.results :
                       /\ \E i \in DOMAIN audio_files :
                             audio_files[i] = audioOp'.results[k].row
                       /\ WholeRecord(audioOp'.results[k].row)]_vars

\* A query has returned the stored record of an entry while the importer
\* holds an uncommitted record for the same entry, which the result lacks
C16_Witness ==
    /\ audioOp.op = "query_entry"
    /\ Len(audioOp.results) = 1
    /\ \E i \in DOMAIN importer :
          /\ importer[i].pc = "commit"
          /\ importer[i].row # <<>>
          /\ importer[i].row[1].entry_id = audioOp.metadata["entry_id"]
          /\ importer[i].row[1].file_hash # audioOp.results[1].row.file_hash

\* C14: linkToEntry(audioId, entryId) sets the entry_id of the record audioId
\* to entryId whether or not the Lexicon Store holds such an entry, never
\* fails, and changes no other record, no other field of that record and no
\* speaker row; for an audioId that names no record it changes nothing.
C14_LinkSetsOnlyEntryId ==
    [][DidAudio("link") =>
        LET id == audioOp'.ret
            e == audioOp'.metadata["entry_id"]
        IN  /\ audioOp'.err = ""
            /\ speakers' = speakers
            /\ DOMAIN audio_files' = DOMAIN audio_files
            /\ \A i \in DOMAIN audio_files :
                  audio_files'[i] =
                      IF audio_files[i].id = id
                      THEN [audio_files[i] EXCEPT !.entry_id = e]
                      ELSE audio_files[i]
            /\ (\A i \in DOMAIN audio_files : audio_files[i].id # id)
                  => audio_files' = audio_files]_vars

\* A record was linked to an entry the Lexicon Store does not hold, next to
\* another record that kept its own entry_id
C14_Witness ==
    /\ audioOp.op = "link"
    /\ audioOp.metadata["entry_id"] \notin Keys(entries)
    /\ \E i, j \in DOMAIN audio_files :
          /\ audio_files[i].id = audioOp.ret
          /\ audio_files[i].entry_id = audioOp.metadata["entry_id"]
          /\ audio_files[j].entry_id # audio_files[i].entry_id
          /\ Truthy(audio_files[j].entry_id)

\* The table as a connection sees it: the committed rows and the rows its own
\* open transaction has written
TableSeenBy(i) == audio_files \o importer[i].row

\* Both importers' calls are on files with the same bytes
SameBytes(i, j) ==
    /\ i # j
    /\ importer[i].f.kind = "audio" /\ importer[j].f.kind = "audio"
    /\ calculate_file_hash(importer[i].f) = calculate_file_hash(importer[j].f)

\* C4: when two importers run importFile at once on byte-identical files,
\* their lookup and insert steps interleaved in any order, the audio table
\* never holds two rows with that content hash, neither among the committed
\* rows nor as any connection sees the table.
C4_RaceCreatesNoSecondRow ==
    \A i, j \in Importers :
        SameBytes(i, j) =>
            LET h == calculate_file_hash(importer[i].f)
            IN  /\ Cardinality(RowsWithHash(audio_files, h)) <= 1
                /\ Cardinality(RowsWithHash(TableSeenBy(i), h)) <= 1

\* Both importers looked the same hash up before either had inserted it; one
\* committed its row and the other's INSERT was refused
C4_Witness ==
    \E i, j \in Importers :
        /\ SameBytes(i, j)
        /\ importer[i].f.name # importer[j].f.name
        /\ importer[i].pc = "done" /\ importer[i].printed = ""
        /\ importer[j].pc = "raised" /\ importer[j].err = "IntegrityError"
        /\ Cardinality(RowsWithHash(audio_files,
                                    calculate_file_hash(importer[i].f))) = 1

\* C5: when two importers import byte-identical files at once, both calls
\* complete without error and both return the id of the single record for
\* that hash, under every interleaving of their lookup and insert steps.
C5_AtomicInsertOrGet ==
    \A i, j \in Importers :
        (SameBytes(i, j) /\ importer[i].pc \in {"done", "raised"}) =>
            /\ importer[i].err = ""
            /\ \E k \in RowsWithHash(audio_files, calculate_file_hash(importer[i].f)) :
                    importer[i].ret = audio_files[k].id

\* A file name that follows the convention with an entry id of the rki_NNNN
\* form: rki_, four digits, _, then the speaker
FollowsConvention(name) ==
    /\ Len(name) > 9
    /\ SubSeq(name, 1, 4) = <<114, 107, 105, 95>>
    /\ \A i \in 5..8 : IsDigit(name[i])
    /\ name[9] = 95

NamedEntryId(name) == SubSeq(name, 1, 8)

\* The text between the entry id and the next _ or the suffix
NamedSpeaker(name) == Split(Stem(SubSeq(name, 10, Len(name))), 95)[1]

\* C21: for a file named {entry_id}_{speaker_id}... with an entry id of the
\* rki_NNNN form, the entry id derived from the name is that entry id and the
\* speaker is that speaker_id, in batchImportDirectory and in
\* create_audio_index; create_audio_index attaches to each lexicon entry
\* exactly the files named with its id, and when every file follows the
\* convention entries_with_audio is the number of distinct entry ids among
\* the files.
C21_FilenameEntryId ==
    audioOp.op = "index" =>
        LET files == audioOp.files
            r == audioOp.results
            named == {i \in DOMAIN files : FollowsConvention(files[i].name)}
        IN  /\ \A i \in named :
                  /\ BatchMetadata(<<>>, files[i])["entry_id"]
                        = NamedEntryId(files[i].name)
                  /\ BatchMetadata(<<>>, files[i])["speaker_id"]
                        = NamedSpeaker(files[i].name)
                  /\ NamedEntryId(files[i].name) \in DOMAIN r.audio_by_entry
            /\ \A k \in DOMAIN r.lexicon :
                  LET e == r.lexicon[k]
                      attached == IF "audio" \in DOMAIN e
                                  THEN {e["audio"][j].filename : j \in DOMAIN e["audio"]}
                                  ELSE {}
                  IN  attached = {files[i].name : i \in
                                    {i \in named : NamedEntryId(files[i].name) = e["id"]}}
            /\ named = DOMAIN files =>
                  r.entries_with_audio
                      = Cardinality({NamedEntryId(files[i].name) : i \in named})

\* C22: queryByDialect(dialect) succeeds and returns exactly the audio records
\* whose dialect is the argument, none dropped, ordered by entry_id then
\* speaker_id, also when the entries they name are not in the lexicon or no
\* lexicon data has been stored at all; a missing entry gives empty entry
\* attributes, never an error.
C22_DialectQueryWithoutLexicon ==
    [][DidAudio("query_dialect") =>
         LET rows == audioOp'.results
             dialect == audioOp'.metadata.dialect
             wanted == {i \in DOMAIN audio_files : audio_files[i].dialect = dialect}
         IN  /\ audioOp'.err = ""
             /\ Len(rows) = Cardinality(wanted)
             /\ {rows[k].row : k \in DOMAIN rows} = {audio_files[i] : i \in wanted}
             /\ \A k \in 1..(Len(rows) - 1) :
                   RowLE(rows[k], rows[k + 1], "entry_id", "speaker_id")
             /\ \A k \in DOMAIN rows :
                   rows[k].extra = [rakhine |-> Null, romanization |-> Null,
                                    gloss_en |-> Null]
      ]_vars

\* C26: when batchImportDirectory meets a file whose content hash is already
\* stored, the existing audio record is left unchanged: the records the
\* store held before the batch, its entry_id included, are the same after it.
C26_DuplicateLeavesRecord ==
    [][DidAudio("batch") =>
         \A k \in DOMAIN audio_files :
            /\ k \in DOMAIN audio_files'
            /\ audio_files'[k] = audio_files[k]
      ]_vars

\* Every audio record that names a speaker has its row in speakers
SpeakersKnown(af, sp) ==
    \A k \in DOMAIN af :
        Truthy(af[k].speaker_id) => af[k].speaker_id \in DOMAIN sp

\* C27: after any sequence of imports and links every audio record with a
\* non-empty speaker_id has a row in speakers with that speaker_id: the two
\* rows become visible in one commit, and when an import fails after its
\* audio insert, neither the failure nor the rollback that follows shows any
\* of its rows.
C27_SpeakerRowExists ==
    [][/\ SpeakersKnown(audio_files', speakers')
       /\ \A i \in Importers :
             \/ (importer[i].pc # "raised" /\ importer'[i].pc = "raised")
             \/ (importer[i].pc = "raised" /\ dbLock = i /\ dbLock' = 0)
             => audio_files' = audio_files /\ speakers' = speakers
      ]_vars

\* An import that named a new speaker failed after its audio insert and was
\* rolled back, beside a committed record with its speaker
C27_Witness ==
    /\ importer[1].pc = "raised" /\ importer[1].err = "TypeError"
    /\ dbLock = 0
    /\ Len(audio_files) = 1
    /\ audio_files[1].speaker_id = spk01
    /\ DOMAIN speakers = {spk01}

----------------------------------------------------------------------------
(* Audio recorder: claims *)

\* The recording threads that are alive
AliveThreads(ths) == {t \in DOMAIN ths : ths[t].pc \notin {"done", "raised"}}

\* A step in which thread t calls read on a closed stream, or comes out of a
\* read whose stream is closed
ReadsClosedStream(t) ==
    /\ threads'[t] # threads[t]
    /\ \/ threads[t].pc = "call" /\ streams[stream] = "closed"
       \/ threads[t].pc = "inread" /\ streams[threads[t].s] = "closed"

\* The step in which stop_recording returns the audio data
StopReturns == caller.pc = "join" /\ caller'.pc = "idle" /\ caller'.err = ""

\* The chunks of fs are the device's chunks first..last, one after another
ChunksInOrder(fs, last) ==
    \A i \in DOMAIN fs : fs[i] = Chunk(last - Len(fs) + i)

\* C28: stop_recording returns only after the recording thread has
\* terminated; the bytes it returns are the chunks appended since the matching
\* start_recording, joined in the order of capture with none left out; once
\* it has returned the thread appends no further chunk, and no thread reads
\* from a stream that stop_recording closed.
C28_StopJoinsThread ==
    [][/\ StopReturns =>
            /\ AliveThreads(threads') = {}
            /\ caller'.ret = JoinFrames(frames)
            /\ ChunksInOrder(frames, captured)
            /\ frames' = frames
       /\ (caller.pc = "idle" /\ ~is_recording) => Len(frames') <= Len(frames)
       /\ audio = "ready" => \A t \in DOMAIN threads : ~ReadsClosedStream(t)
      ]_vars

\* The second recording was stopped and gave two chunks
C28_Witness ==
    /\ caller = Caller("idle", "stop_recording", Chunk(captured - 1) \o Chunk(captured),
                       "", FALSE)
    /\ Len(streams) = 2
    /\ streams[2] = "closed"
    /\ threads[2].pc = "done"

\* C29: under any sequence of calls at most one recording thread is alive;
\* start_recording while recording is a no-op (the captured frames are kept,
\* no second stream or thread is made), and stop_recording while not
\* recording returns empty data and changes no state.
C29_OneRecordingThread ==
    [][/\ Cardinality(AliveThreads(threads')) <= 1
       /\ (caller' # caller /\ caller'.early) =>
            /\ caller'.op = "stop_recording" => caller'.ret = <<>>
            /\ UNCHANGED <<is_recording, frames, stream, recording_thread,
                           audio, streams, threads, captured>>
      ]_vars

\* start_recording was called in the middle of a recording and left it as
\* it was
C29_Witness ==
    /\ caller = Caller("idle", "start_recording", <<>>, "", TRUE)
    /\ is_recording
    /\ Len(frames) = 2
    /\ Len(streams) = 1
    /\ AliveThreads(threads) = {1}

\* C30: after close() has been called, also in the middle of a recording, the
\* recording thread never reads from a closed stream, and it eventually
\* terminates.
C30_CloseStopsThread ==
    /\ [][audio = "terminated" =>
             \A t \in DOMAIN threads : ~ReadsClosedStream(t)]_vars
    /\ [](audio = "terminated" => <>(AliveThreads(threads) = {}))

====
